---- MODULE Spec2Model ----
(***************************************************************************)
(* Model of the influence-graph crawler: the BFS crawl of GraphBuilder     *)
(* (graph_builder.py), its resume from a persisted GEXF file, the          *)
(* chronology check, and the response cache (cache_manager.py).            *)
(***************************************************************************)
EXTENDS Integers, Sequences, FiniteSets, TLC

(***************************************************************************)
(* Bounds and scaled configuration                                         *)
(***************************************************************************)
\* config.py:41 sets MAX_DEPTH = 15; scaled down so that leaves are reached.
MAX_DEPTH == 2
\* config.py:44 sets MAX_SCIENTISTS = 1000; scaled down so that the cap binds.
MAX_SCIENTISTS == 4
\* graph_builder.py:120 autosaves every 20 visited subjects; scaled down.
AUTOSAVE_EVERY == 2
\* most names a responder puts in one answer (both lists together)
MaxNamed == 2
\* graph_builder.py:167
margin == 5

(***************************************************************************)
(* The world the external collaborators describe                           *)
(***************************************************************************)
START_SCIENTIST == "Albert Einstein"

Names == {"Albert Einstein", "Ernst Mach", "Niels Bohr", "Max Planck", "CERN"}

\* Python None for an optional year; 0 is what save_graph writes for None.
NoneYear == -1

\* what WikipediaClient.extract_years finds for a name (birth year or None)
WikiBirth(name) ==
    CASE name = "Albert Einstein" -> 1879
      [] name = "Ernst Mach"      -> 1838
      [] name = "Niels Bohr"      -> 1885
      [] name = "Max Planck"      -> 1858
      [] OTHER                    -> NoneYear

\* what WikipediaClient.is_scientist answers from the page categories
WikiIsScientist(name) == name # "CERN"

\* what WikipediaClient.get_scientific_field answers ("" stands for None)
WikiField(name) ==
    CASE name \in {"Albert Einstein", "Ernst Mach", "Niels Bohr", "Max Planck"} -> "Physics"
      [] OTHER -> ""

\* lexical facts about the names, as the string tests of the code see them
NameLen(name) ==
    CASE name = "Albert Einstein" -> 15
      [] name = "Ernst Mach"      -> 10
      [] name = "Niels Bohr"      -> 10
      [] name = "Max Planck"      -> 10
      [] name = "CERN"            -> 4
      [] name = "Al"              -> 2
      [] name = "Newton"          -> 6
      [] name = "Adolf Hitler"    -> 12
      [] name = "Vienna Circle"   -> 13
      [] OTHER                    -> 0
HasSpace(name) ==
    name \in {"Albert Einstein", "Ernst Mach", "Niels Bohr", "Max Planck", "Adolf Hitler",
              "Vienna Circle"}
\* any(bl.lower() in name.lower() for bl in BLACKLIST), config.py:55-78
InBlacklist(name) == name \in {"CERN", "Adolf Hitler"}
\* any(re.search(p, name, re.IGNORECASE) for p in EXCLUSION_PATTERNS)
MatchesExclusion(name) == name \in {"Vienna Circle"}

(***************************************************************************)
(* Values                                                                  *)
(***************************************************************************)
\* the depth attribute of a node: absent, an int, or a string (GEXF attribute
\* declared with type string)
DNone == [t |-> "none", i |-> 0, s |-> ""]
DInt(k) == [t |-> "int", i |-> k, s |-> ""]
DStr(x) == [t |-> "str", i |-> 0, s |-> x]

\* a node created by add_edge carries no attribute
NoAttrs == [depth |-> DNone, field |-> "", birth_year |-> NoneYear]

EmptyGraph == [order |-> <<>>, attrs |-> <<>>, edges |-> {}]

\* Python truthiness of an optional year / of an optional string
Falsy(year) == year = NoneYear \/ year = 0

SeqToSet(s) == {s[i] : i \in 1..Len(s)}

HasNode(g, n) == n \in DOMAIN g.attrs

\* nx.DiGraph.add_node(n, **attrs): create or update
AddNode(g, n, a) ==
    [order |-> IF HasNode(g, n) THEN g.order ELSE Append(g.order, n),
     attrs |-> [m \in DOMAIN g.attrs \cup {n} |-> IF m = n THEN a ELSE g.attrs[m]],
     edges |-> g.edges]

\* nx.DiGraph.add_edge(u, v): creates the missing end points without
\* attributes; adding an existing edge changes nothing
AddEdge(g, u, v) ==
    LET g1 == IF HasNode(g, u) THEN g ELSE AddNode(g, u, NoAttrs)
        g2 == IF HasNode(g1, v) THEN g1 ELSE AddNode(g1, v, NoAttrs)
    IN  [g2 EXCEPT !.edges = @ \cup {<<u, v>>}]

NodeBirth(g, n) == IF HasNode(g, n) THEN g.attrs[n].birth_year ELSE NoneYear
NodeField(g, n) == IF HasNode(g, n) THEN g.attrs[n].field ELSE ""

(***************************************************************************)
(* NameFilter: GraphBuilder._is_valid_name                                 *)
(***************************************************************************)
\* the checks made before the Wikipedia category lookup (lines 240-254)
PassesStringChecks(name) ==
    /\ NameLen(name) # 0
    /\ ~(NameLen(name) < 3 \/ ~HasSpace(name))
    /\ ~InBlacklist(name)
    /\ ~MatchesExclusion(name)

\* the result when wiki_client.is_scientist returns (it may also raise)
IsValidName(name) == PassesStringChecks(name) /\ WikiIsScientist(name)

(***************************************************************************)
(* ChronologyValidator: GraphBuilder._is_chronologically_valid             *)
(***************************************************************************)
\* lines 144-149: the node's birth year, else the one extract_years finds
CurrentBirth(g, current_node) ==
    IF Falsy(NodeBirth(g, current_node)) THEN WikiBirth(current_node)
    ELSE NodeBirth(g, current_node)

\* lines 148-149: a year found by the fallback is stored on the node
BackfillBirth(g, current_node) ==
    IF Falsy(NodeBirth(g, current_node)) /\ ~Falsy(WikiBirth(current_node))
    THEN [g EXCEPT !.attrs[current_node].birth_year = WikiBirth(current_node)]
    ELSE g

\* lines 152-158: the target's year is looked up but never stored
TargetBirth(g, target_node) ==
    IF Falsy(NodeBirth(g, target_node)) THEN WikiBirth(target_node)
    ELSE NodeBirth(g, target_node)

\* variant: the comparisons of lines 173 and 181 are >= and <=
ChronoVerdictStrict(current_birth, target_birth, relation_type) ==
    IF Falsy(current_birth) \/ Falsy(target_birth) THEN TRUE
    ELSE IF relation_type = "inspired_by"
         THEN ~(target_birth >= current_birth + margin)
    ELSE IF relation_type = "inspired"
         THEN ~(target_birth <= current_birth - margin)
    ELSE TRUE

\* variant: the branch for relation_type == "inspired" (lines 177-183) is missing
ChronoVerdictOneWay(current_birth, target_birth, relation_type) ==
    IF Falsy(current_birth) \/ Falsy(target_birth) THEN TRUE
    ELSE IF relation_type = "inspired_by"
         THEN ~(target_birth > current_birth + margin)
    ELSE TRUE

\* lines 164-185
ChronoVerdict(current_birth, target_birth, relation_type) ==
    IF Falsy(current_birth) \/ Falsy(target_birth) THEN TRUE
    ELSE IF relation_type = "inspired_by"
         THEN ~(target_birth > current_birth + margin)
    ELSE IF relation_type = "inspired"
         THEN ~(target_birth < current_birth - margin)
    ELSE TRUE

IsChronologicallyValid(g, current_node, target_node, relation_type) ==
    ChronoVerdict(CurrentBirth(g, current_node), TargetBirth(g, target_node),
                  relation_type)

\* extract_years is called (and may raise) when a year is missing on a node
ChronoCallsWiki(g, current_node, target_node) ==
    Falsy(NodeBirth(g, current_node)) \/ Falsy(NodeBirth(g, target_node))

(***************************************************************************)
(* ExtractionClient as the crawl sees it                                   *)
(***************************************************************************)
NameLists(n) == UNION {[1..k -> Names] : k \in 0..n}

\* dict.get(key, [])
Get(dict, key) == IF key \in DOMAIN dict THEN dict[key] ELSE <<>>

\* what the responders hand back: None (the empty function), or a parsed
\* JSON object.  The prompt asks for the keys "inspirations" and "inspired";
\* the text is untrusted, so an answer may use "inspired_by" instead.
ResponderResults ==
    {<<>>} \cup
    {[inspirations |-> a, inspired |-> b] :
        <<a, b>> \in {p \in NameLists(MaxNamed) \X NameLists(MaxNamed) :
                        Len(p[1]) + Len(p[2]) <= MaxNamed}} \cup
    {[inspired_by |-> a, inspired |-> b] :
        <<a, b>> \in {p \in NameLists(MaxNamed) \X NameLists(MaxNamed) :
                        Len(p[1]) + Len(p[2]) <= MaxNamed}}

\* llm_extractor.py:224
FinalResult(result) ==
    IF DOMAIN result = {} THEN [inspirations |-> <<>>, inspired |-> <<>>]
    ELSE result

(***************************************************************************)
(* Persistence: GraphBuilder.save_graph and nx.read_gexf                   *)
(***************************************************************************)
NoFile == [kind |-> "absent", graph |-> EmptyGraph]
CorruptFile == [kind |-> "corrupt", graph |-> EmptyGraph]
GexfFile(g) == [kind |-> "gexf", graph |-> g]

\* lines 268-278: None values are replaced before export.  Only a node that
\* went through add_node has the keys (it is the one with a depth).
ExportGraph(g) ==
    [g EXCEPT !.attrs = [n \in DOMAIN g.attrs |->
        IF g.attrs[n].depth.t # "none" /\ g.attrs[n].birth_year = NoneYear
        THEN [g.attrs[n] EXCEPT !.birth_year = 0]
        ELSE g.attrs[n]]]

(***************************************************************************)
(* GraphStore.resume: GraphBuilder._load_existing_graph                    *)
(***************************************************************************)
\* float('inf'), line 203 (larger than every depth of the model)
Infinity == 1000000

Min(a, b) == IF a <= b THEN a ELSE b

\* int(parent_depth) for a string attribute: defined on decimal strings only
StrIsInt(x) == x \in {"0", "1", "2", "3"}
IntOfStr(x) ==
    CASE x = "0" -> 0 [] x = "1" -> 1 [] x = "2" -> 2 [] x = "3" -> 3

\* lines 209-210 and 215-216: the parent's depth as an int
DepthParses(d) == d.t = "int" \/ (d.t = "str" /\ StrIsInt(d.s))
ParentDepth(d) == IF d.t = "str" THEN IntOfStr(d.s) ELSE d.i

\* variant: every node of the file counts as visited
LoadedVisitedAll(g) == DOMAIN g.attrs

\* lines 199-203
LoadedVisited(g) == {n \in DOMAIN g.attrs : g.attrs[n].depth.t # "none"}
LoadedCandidates(g) == {n \in DOMAIN g.attrs : g.attrs[n].depth.t = "none"}

\* variant: only the edges from a visited node to a candidate are used
RelaxEdgeForward(g, seen, cand, u, v) ==
    IF u \in seen /\ v \in DOMAIN cand
    THEN [cand EXCEPT ![v] = Min(@, ParentDepth(g.attrs[u].depth) + 1)]
    ELSE cand

\* lines 206-217: one edge folded into the candidate map
RelaxEdge(g, seen, cand, u, v) ==
    LET c1 == IF u \in seen /\ v \in DOMAIN cand
              THEN [cand EXCEPT ![v] = Min(@, ParentDepth(g.attrs[u].depth) + 1)]
              ELSE cand
    IN  IF u \in DOMAIN c1 /\ v \in seen
        THEN [c1 EXCEPT ![u] = Min(@, ParentDepth(g.attrs[v].depth) + 1)]
        ELSE c1

\* int() raises on this edge
EdgeRaises(g, seen, cands, u, v) ==
    \/ u \in seen /\ v \in cands /\ ~DepthParses(g.attrs[u].depth)
    \/ u \in cands /\ v \in seen /\ ~DepthParses(g.attrs[v].depth)

RECURSIVE RelaxAll(_, _, _, _)
RelaxAll(g, seen, cand, es) ==
    IF es = {} THEN cand
    ELSE LET e == CHOOSE x \in es : TRUE
         IN  RelaxAll(g, seen, RelaxEdge(g, seen, cand, e[1], e[2]), es \ {e})

\* list.sort(key=depth) is stable: an entry goes after the entries that are
\* not deeper than it
RECURSIVE InsertByDepth(_, _)
InsertByDepth(sorted, e) ==
    IF sorted = <<>> THEN <<e>>
    ELSE IF Head(sorted)[2] <= e[2]
         THEN <<Head(sorted)>> \o InsertByDepth(Tail(sorted), e)
         ELSE <<e>> \o sorted

RECURSIVE SortByDepth(_)
SortByDepth(entries) ==
    IF entries = <<>> THEN <<>>
    ELSE InsertByDepth(SortByDepth(SubSeq(entries, 1, Len(entries) - 1)),
                       entries[Len(entries)])

\* line 219: the candidates with a finite depth, in node order
RECURSIVE ValidCandidates(_, _)
ValidCandidates(order, cand) ==
    IF order = <<>> THEN <<>>
    ELSE LET n == Head(order)
             rest == ValidCandidates(Tail(order), cand)
         IN  IF n \in DOMAIN cand /\ cand[n] # Infinity
             THEN <<<<n, cand[n]>>>> \o rest
             ELSE rest

\* the visited set is never reset when the rebuild fails (lines 225-229)
VisitedAfterLoad(f, seen) ==
    IF f.kind = "gexf" THEN seen \cup LoadedVisited(f.graph) ELSE seen

LoadRaises(f, seen) ==
    \/ f.kind = "corrupt"
    \/ /\ f.kind = "gexf"
       /\ \E e \in f.graph.edges :
              EdgeRaises(f.graph, VisitedAfterLoad(f, seen),
                         LoadedCandidates(f.graph), e[1], e[2])

GraphAfterLoad(f, g, seen) ==
    IF f.kind = "absent" THEN g
    ELSE IF LoadRaises(f, seen) THEN EmptyGraph
    ELSE f.graph

QueueAfterLoad(f, seen, start_scientist) ==
    LET fresh == << <<start_scientist, 0>> >>
        g == f.graph
        v == VisitedAfterLoad(f, seen)
        cand == RelaxAll(g, v, [n \in LoadedCandidates(g) |-> Infinity], g.edges)
        q == IF f.kind = "absent" \/ LoadRaises(f, seen) THEN fresh
             ELSE SortByDepth(ValidCandidates(g.order, cand))
    IN  IF q = <<>> /\ Cardinality(v) = 0 THEN fresh ELSE q

(***************************************************************************)
(* State                                                                   *)
(***************************************************************************)
VARIABLES
    pc,         \* position of the run inside build_influence_graph
    queue,      \* the BFS deque of <<name, depth>>
    visited,    \* GraphBuilder.visited
    graph,      \* GraphBuilder.graph
    file,       \* output/scientist_graph.gexf
    cur,        \* <<current_scientist, depth>> of the iteration
    relations,  \* the dict extract_relations returned
    idx,        \* position of the for loop over a relation list
    chrono,     \* a call of _is_chronologically_valid and what it returned
    cache_dir,      \* the files of CACHE_DIR: cache key -> entry
    prompt_version, \* CacheManager.prompt_version
    stats,          \* CacheManager.stats
    got,            \* the last CacheManager.get call and what it returned
    lastSet,        \* history: per cache key, the result of its last set call, when
                    \* that call wrote its entry and no purge came after it
    is_generating,  \* server.py: the global flag
    live,           \* server.py: the locals of the run_live_generation thread
    config,         \* config.py: the responder switches and whether a key is set
    ext,            \* the last LLMExtractor.extract_relations call
    parsed,         \* a call of _parse_json_response and what it returned
    tally,          \* the counts of a crawl run: subjects visited and checkpointed
    server,         \* server.py: the worker threads, reduced to their counts
    val,            \* advanced_validator.py: a run of the offline validation
    nf,             \* graph_builder.py: a call of _is_valid_name, check by check
    fetched         \* history: the subjects whose biography this run has requested

crawlVars == <<pc, queue, visited, graph, file, cur, relations, idx>>
cacheVars == <<cache_dir, prompt_version, stats, got, lastSet>>
liveVars == <<is_generating, live>>
extVars == <<config, ext, parsed, tally, server, val, nf>>
vars == <<crawlVars, chrono, cacheVars, liveVars, extVars, fetched>>

NoRelations == [inspirations |-> <<>>, inspired |-> <<>>]

\* GraphBuilder.__init__, before build_influence_graph is called
InitRun ==
    /\ pc = "start"
    /\ queue = <<>>
    /\ visited = {}
    /\ graph = EmptyGraph
    /\ cur = <<START_SCIENTIST, 0>>
    /\ relations = NoRelations
    /\ idx = 1

NoCall == [current |-> "", target |-> "", relation_type |-> "", result |-> TRUE,
           done |-> TRUE]

\* cache_manager.py:18
PROMPT_VERSION == "v2.0-fewshot-cot"

NoGet == [key |-> <<>>, hit |-> FALSE, result |-> NoRelations]

\* CacheManager.__init__ on an empty cache directory
InitCache ==
    /\ cache_dir = <<>>
    /\ prompt_version = PROMPT_VERSION
    /\ stats = [hits |-> 0, misses |-> 0]
    /\ got = NoGet
    /\ lastSet = <<>>

\* server.py:23-25 and a thread that was not started
NoWorker ==
    [pc |-> "idle", queue |-> <<>>, visited |-> {}, graph |-> EmptyGraph,
     node_count |-> 0, max_nodes |-> 0, cur |-> <<START_SCIENTIST, 0>>,
     relations |-> NoRelations, idx |-> 1,
     runs |-> 0]    \* history: the threads started so far

InitLive == is_generating = FALSE /\ live = NoWorker

\* config.py as it is in the repository: only Ollama is switched on, and no
\* key is set for Cerebras, Mistral or OpenAI
DefaultConfig ==
    [use_cerebras |-> FALSE, cerebras_key |-> FALSE, use_groq |-> FALSE,
     use_mistral |-> FALSE, mistral_key |-> FALSE, openai_key |-> FALSE,
     use_ollama |-> TRUE]

\* None, as a responder call returns it
None == [None |-> TRUE]

NoAnswer == [kind |-> "", text |-> <<>>]

\* no extract_relations call was made yet
NoExtract ==
    [calls |-> 0, key |-> <<>>, hit |-> FALSE, contacted |-> <<>>,
     answer |-> NoAnswer, result |-> None,
     returned |-> NoRelations, outcome |-> ""]

\* no _parse_json_response call was made yet
NoParse == [response |-> <<>>, result |-> NoRelations, done |-> FALSE]

\* most threads that start_generation requests create
MaxWorkers == 2

\* a thread that was not created
NoThread == [pc |-> "none", node_count |-> 0, max_nodes |-> 0, left |-> 0]

\* server.py:23-25 with no thread created and no request handled
NoServer ==
    [workers |-> [w \in 1..MaxWorkers |-> NoThread],
     last |-> [outcome |-> "", busy |-> FALSE],
     stopped |-> {}]

\* a value an answer may list as a name: a string, or something else
Str(text) == [isStr |-> TRUE, text |-> text]
NotStr == [isStr |-> FALSE, text |-> ""]

\* _is_valid_name was not called
NoFilter == [pc |-> "idle", name |-> NotStr, result |-> FALSE, lookups |-> {}]

\* a float: the value (a * 2^57 + e) / (400 * 2^57)
Zero == [a |-> 0, e |-> 0]

\* validate_and_score, lines 285-297: the result before any check
NoResult ==
    [scores |-> [wikidata_doctoral |-> Zero, wikidata_influence |-> Zero,
                 temporal_plausibility |-> Zero, cooccurrence |-> Zero],
     sum |-> Zero, confidence |-> 0, keep |-> FALSE]

\* no validation was started
NoVal ==
    [pc |-> "idle", gexf_path |-> <<>>, filter_mode |-> FALSE, output_path |-> <<>>,
     original |-> EmptyGraph, files |-> <<>>, G |-> EmptyGraph, todo |-> <<>>,
     removed |-> {}, result |-> NoResult]

\* a run before its first iteration: nothing visited, nothing saved
NoTally == [visited |-> 0, depth |-> 0, saved |-> 0]

InitExt ==
    /\ config = DefaultConfig /\ ext = NoExtract /\ parsed = NoParse /\ tally = NoTally
    /\ server = NoServer /\ val = NoVal /\ nf = NoFilter
    /\ fetched = {}

Init == InitRun /\ file = NoFile /\ chrono = NoCall /\ InitCache /\ InitLive /\ InitExt

(***************************************************************************)
(* CrawlEngine: GraphBuilder.build_influence_graph                         *)
(***************************************************************************)
\* line 23
LoadExistingGraph ==
    /\ UNCHANGED <<chrono, cacheVars, liveVars, extVars, fetched>>
    /\ pc = "start"
    /\ pc' = "loop"
    /\ visited' = VisitedAfterLoad(file, visited)
    /\ graph' = GraphAfterLoad(file, graph, visited)
    /\ queue' = QueueAfterLoad(file, visited, START_SCIENTIST)
    /\ UNCHANGED <<file, cur, relations, idx>>

\* line 29
LoopRuns == queue # <<>> /\ Cardinality(visited) < MAX_SCIENTISTS

\* variant: the test current_scientist in self.visited (line 33) is missing
SkippedIgnoringVisited(name, depth) ==
    \/ depth > MAX_DEPTH
    \/ InBlacklist(name)

\* lines 33-40
Skipped(name, depth) ==
    \/ name \in visited
    \/ depth > MAX_DEPTH
    \/ InBlacklist(name)

\* lines 60-68
ResolveField(g, name) ==
    LET known == NodeField(g, name)
        field == IF known = "" \/ known = "Other" THEN WikiField(name) ELSE known
    IN  IF field = "" THEN "Other" ELSE field
FieldCallsWiki(g, name) == NodeField(g, name) \in {"", "Other"}

\* lines 74-76
ResolveBirth(g, name) ==
    IF Falsy(NodeBirth(g, name)) THEN WikiBirth(name) ELSE NodeBirth(g, name)
BirthCallsWiki(g, name) == Falsy(NodeBirth(g, name))

\* variant: the entry at the head is read and left in the queue
SkipEntryKeepsEntry ==
    /\ UNCHANGED <<chrono, cacheVars, liveVars, extVars, fetched>>
    /\ pc = "loop" /\ LoopRuns
    /\ Skipped(Head(queue)[1], Head(queue)[2])
    /\ cur' = Head(queue)
    /\ UNCHANGED <<pc, queue, visited, graph, file, relations, idx>>

\* lines 30-40: an entry is popped and dropped by one of the three checks
SkipEntry ==
    /\ UNCHANGED <<chrono, cacheVars, liveVars, extVars, fetched>>
    /\ pc = "loop" /\ LoopRuns
    /\ Skipped(Head(queue)[1], Head(queue)[2])
    /\ cur' = Head(queue)
    /\ queue' = Tail(queue)
    /\ UNCHANGED <<pc, visited, graph, file, relations, idx>>

\* lines 45-53: get_scientist_text raises or finds no page
FetchFails ==
    /\ UNCHANGED <<chrono, cacheVars, liveVars, extVars>>
    /\ pc = "loop" /\ LoopRuns
    /\ ~Skipped(Head(queue)[1], Head(queue)[2])
    /\ cur' = Head(queue)
    /\ queue' = Tail(queue)
    /\ fetched' = fetched \cup {Head(queue)[1]}
    /\ UNCHANGED <<pc, visited, graph, file, relations, idx>>

\* lines 30-87: the entry is visited; a leaf ends the iteration, any other
\* subject goes on to the relations the extractor returns
VisitSubject ==
    /\ UNCHANGED <<chrono, cacheVars, liveVars, extVars>>
    /\ pc = "loop" /\ LoopRuns
    /\ ~Skipped(Head(queue)[1], Head(queue)[2])
    /\ LET name == Head(queue)[1]
           depth == Head(queue)[2]
       IN  /\ cur' = Head(queue)
           /\ queue' = Tail(queue)
           /\ fetched' = fetched \cup {name}
           /\ visited' = visited \cup {name}
           /\ graph' = AddNode(graph, name,
                          [depth |-> DInt(depth),
                           field |-> ResolveField(graph, name),
                           birth_year |-> ResolveBirth(graph, name)])
           /\ IF depth = MAX_DEPTH
              THEN pc' = "loop" /\ UNCHANGED <<relations, idx>>
              ELSE /\ pc' = "inspired_by"
                   /\ idx' = 1
                   /\ \E result \in ResponderResults :
                          relations' = FinalResult(result)
    /\ UNCHANGED file

\* lines 65 and 76: get_scientific_field or extract_years raises; nothing
\* catches it and the run dies
VisitRaises ==
    /\ UNCHANGED <<chrono, cacheVars, liveVars, extVars>>
    /\ pc = "loop" /\ LoopRuns
    /\ ~Skipped(Head(queue)[1], Head(queue)[2])
    /\ FieldCallsWiki(graph, Head(queue)[1]) \/ BirthCallsWiki(graph, Head(queue)[1])
    /\ cur' = Head(queue)
    /\ queue' = Tail(queue)
    /\ fetched' = fetched \cup {Head(queue)[1]}
    /\ \/ UNCHANGED visited                         \* raised at line 65
       \/ visited' = visited \cup {Head(queue)[1]}  \* raised at line 76
    /\ pc' = "crashed"
    /\ UNCHANGED <<graph, file, relations, idx>>

\* variant: the test person not in self.visited (lines 98, 110) is missing
EnqueueAlways(q, seen, person, depth) == Append(q, <<person, depth + 1>>)

\* variant: the entry is given the depth after the next
EnqueueTwoDeeper(q, seen, person, depth) ==
    IF person \notin seen THEN Append(q, <<person, depth + 2>>) ELSE q

\* variant: the entry is put at the head of the queue (depth first)
EnqueueAtFront(q, seen, person, depth) ==
    IF person \notin seen THEN <<(<<person, depth + 1>>)>> \o q ELSE q

\* lines 93-99 and 105-111: one person of a relation list
Enqueue(q, seen, person, depth) ==
    IF person \notin seen THEN Append(q, <<person, depth + 1>>) ELSE q

\* variant: the comparison with the subject's own name is missing
IsSelfNever(person, current_scientist) == FALSE

\* graph_builder.py:93, 105 and server.py:148, 168
IsSelf(person, current_scientist) == person = current_scientist

\* lines 93-96 and 105-108: the three tests a named person goes through
Accepts(g, current, person, relation_type) ==
    /\ ~IsSelf(person, current)
    /\ IsValidName(person)
    /\ IsChronologicallyValid(g, current, person, relation_type)

\* lines 91-99
ProcessInspiration ==
    /\ UNCHANGED <<chrono, cacheVars, liveVars, extVars, fetched>>
    /\ pc = "inspired_by"
    /\ idx <= Len(Get(relations, "inspired_by"))
    /\ LET person == Get(relations, "inspired_by")[idx]
           current == cur[1]
           checked == IF ~IsSelf(person, current) /\ IsValidName(person)
                      THEN BackfillBirth(graph, current) ELSE graph
       IN  IF Accepts(graph, current, person, "inspired_by")
           THEN /\ graph' = AddEdge(checked, person, current)
                /\ queue' = Enqueue(queue, visited, person, cur[2])
           ELSE /\ graph' = checked
                /\ UNCHANGED queue
    /\ idx' = idx + 1
    /\ UNCHANGED <<pc, visited, file, cur, relations>>

\* line 103
BeginInspired ==
    /\ UNCHANGED <<chrono, cacheVars, liveVars, extVars, fetched>>
    /\ pc = "inspired_by"
    /\ idx > Len(Get(relations, "inspired_by"))
    /\ pc' = "inspired"
    /\ idx' = 1
    /\ UNCHANGED <<queue, visited, graph, file, cur, relations>>

\* lines 103-111
ProcessInspired ==
    /\ UNCHANGED <<chrono, cacheVars, liveVars, extVars, fetched>>
    /\ pc = "inspired"
    /\ idx <= Len(Get(relations, "inspired"))
    /\ LET person == Get(relations, "inspired")[idx]
           current == cur[1]
           checked == IF ~IsSelf(person, current) /\ IsValidName(person)
                      THEN BackfillBirth(graph, current) ELSE graph
       IN  IF Accepts(graph, current, person, "inspired")
           THEN /\ graph' = AddEdge(checked, current, person)
                /\ queue' = Enqueue(queue, visited, person, cur[2])
           ELSE /\ graph' = checked
                /\ UNCHANGED queue
    /\ idx' = idx + 1
    /\ UNCHANGED <<pc, visited, file, cur, relations>>

\* lines 94/106 and 96/108: is_scientist or extract_years raises inside the
\* for loop; nothing catches it and the run dies
CandidateRaises ==
    /\ UNCHANGED <<chrono, cacheVars, liveVars, extVars, fetched>>
    /\ pc \in {"inspired_by", "inspired"}
    /\ idx <= Len(Get(relations, pc))
    /\ LET person == Get(relations, pc)[idx]
       IN  /\ ~IsSelf(person, cur[1])
           /\ PassesStringChecks(person)
    /\ pc' = "crashed"
    /\ UNCHANGED <<queue, visited, graph, file, cur, relations, idx>>

\* save_graph (lines 263-281): nx.write_gexf writes the file, or fails
\* before or while writing
SaveGraph(g, f, outcome) ==
    CASE outcome = "written" -> GexfFile(ExportGraph(g))
      [] outcome = "failed"  -> f
      [] outcome = "partial" -> CorruptFile

\* lines 113-122: the iteration ends, with the autosave when it is due
EndIteration ==
    /\ UNCHANGED <<chrono, cacheVars, liveVars, extVars, fetched>>
    /\ pc = "inspired"
    /\ idx > Len(Get(relations, "inspired"))
    /\ pc' = "loop"
    /\ IF Cardinality(visited) % AUTOSAVE_EVERY = 0
       THEN \E outcome \in {"written", "failed", "partial"} :
                file' = SaveGraph(graph, file, outcome)
       ELSE UNCHANGED file
    /\ UNCHANGED <<queue, visited, graph, cur, relations, idx>>

\* lines 124-129: the loop is left and build_influence_graph returns
ExitLoop ==
    /\ UNCHANGED <<chrono, cacheVars, liveVars, extVars, fetched>>
    /\ pc = "loop" /\ ~LoopRuns
    /\ pc' = "exited"
    /\ UNCHANGED <<queue, visited, graph, file, cur, relations, idx>>

\* the command-line entry point (main.py, not part of the sources at hand),
\* after build_influence_graph returned: the final save_graph, as the
\* specification of the crawl describes it
FinalCheckpoint ==
    /\ UNCHANGED <<chrono, cacheVars, liveVars, extVars, fetched>>
    /\ pc = "exited"
    /\ pc' = "done"
    /\ \E outcome \in {"written", "failed", "partial"} :
          file' = SaveGraph(graph, file, outcome)
    /\ UNCHANGED <<queue, visited, graph, cur, relations, idx>>

\* the program is started again: a new GraphBuilder, the file as it was left
Restart ==
    /\ UNCHANGED <<chrono, cacheVars, liveVars, extVars>>
    /\ fetched' = {}
    /\ pc \in {"done", "crashed"}
    /\ pc' = "start"
    /\ queue' = <<>>
    /\ visited' = {}
    /\ graph' = EmptyGraph
    /\ cur' = <<START_SCIENTIST, 0>>
    /\ relations' = NoRelations
    /\ idx' = 1
    /\ UNCHANGED file

Next ==
    \/ LoadExistingGraph
    \/ SkipEntry
    \/ FetchFails
    \/ VisitSubject
    \/ VisitRaises
    \/ ProcessInspiration
    \/ BeginInspired
    \/ ProcessInspired
    \/ CandidateRaises
    \/ EndIteration
    \/ ExitLoop
    \/ FinalCheckpoint
    \/ Restart

Spec == Init /\ [][Next]_vars

(***************************************************************************)
(* The live crawl of the streaming server: server.py run_live_generation   *)
(***************************************************************************)
\* most nodes a start_generation request asks for
MaxLiveNodes == 2
\* server.py:190 writes a checkpoint every 10 nodes; scaled down.
CHECKPOINT_EVERY == 2
\* most start_generation requests that are let through
MaxLiveRuns == 1

\* server.py:256-275: a start request is turned down while the flag is set;
\* otherwise a thread is created for run_live_generation
HandleStart ==
    /\ pc = "server"
    /\ ~is_generating
    /\ live.pc \in {"idle", "crashed"}
    /\ live.runs < MaxLiveRuns
    /\ \E max_nodes \in 1..MaxLiveNodes :
          live' = [NoWorker EXCEPT !.pc = "spawned", !.max_nodes = max_nodes,
                                   !.runs = live.runs + 1]
    /\ UNCHANGED <<crawlVars, chrono, cacheVars, is_generating, extVars, fetched>>

\* server.py:278-283
HandleStop ==
    /\ pc = "server"
    /\ is_generating
    /\ is_generating' = FALSE
    /\ UNCHANGED <<crawlVars, chrono, cacheVars, live, extVars, fetched>>

\* server.py:64-90: the thread sets the flag and its locals
LiveBegin ==
    /\ pc = "server"
    /\ live.pc = "spawned"
    /\ is_generating' = TRUE
    /\ live' = [live EXCEPT !.pc = "loop", !.queue = << <<START_SCIENTIST, 0>> >>]
    /\ UNCHANGED <<crawlVars, chrono, cacheVars, extVars, fetched>>

\* server.py:92
LiveLoopRuns == live.queue # <<>> /\ live.node_count < live.max_nodes /\ is_generating

\* server.py:93-96: an entry is popped and dropped
LiveSkipEntry ==
    /\ pc = "server" /\ live.pc = "loop" /\ LiveLoopRuns
    /\ LET scientist == Head(live.queue)[1]
           depth == Head(live.queue)[2]
       IN  /\ scientist \in live.visited \/ depth > MAX_DEPTH
           /\ live' = [live EXCEPT !.queue = Tail(@), !.cur = Head(live.queue)]
    /\ UNCHANGED <<crawlVars, chrono, cacheVars, is_generating, extVars, fetched>>

\* server.py:93-112: the entry is marked visited before the fetch, and the
\* fetch finds no page
LiveFetchFails ==
    /\ pc = "server" /\ live.pc = "loop" /\ LiveLoopRuns
    /\ LET scientist == Head(live.queue)[1]
           depth == Head(live.queue)[2]
       IN  /\ ~(scientist \in live.visited \/ depth > MAX_DEPTH)
           /\ live' = [live EXCEPT !.queue = Tail(@), !.cur = Head(live.queue),
                                   !.visited = @ \cup {scientist}]
    /\ UNCHANGED <<crawlVars, chrono, cacheVars, is_generating, extVars, fetched>>

\* server.py:93-143: the node is added and the relations are extracted
LiveVisit ==
    /\ pc = "server" /\ live.pc = "loop" /\ LiveLoopRuns
    /\ LET scientist == Head(live.queue)[1]
           depth == Head(live.queue)[2]
       IN  /\ ~(scientist \in live.visited \/ depth > MAX_DEPTH)
           /\ \E result \in ResponderResults :
                 live' = [live EXCEPT
                            !.pc = "inspirations",
                            !.queue = Tail(@),
                            !.cur = Head(live.queue),
                            !.visited = @ \cup {scientist},
                            !.graph = AddNode(@, scientist,
                                        [depth |-> DInt(depth),
                                         field |-> IF WikiField(scientist) = ""
                                                   THEN "Unknown"
                                                   ELSE WikiField(scientist),
                                         birth_year |-> NoneYear]),
                            !.node_count = @ + 1,
                            !.relations = FinalResult(result),
                            !.idx = 1]
    /\ UNCHANGED <<crawlVars, chrono, cacheVars, is_generating, extVars, fetched>>

\* server.py:110-128: get_scientist_text, get_scientific_field or
\* extract_years raises outside the try block; the thread dies with the
\* flag still set
LiveVisitRaises ==
    /\ pc = "server" /\ live.pc = "loop" /\ LiveLoopRuns
    /\ LET scientist == Head(live.queue)[1]
           depth == Head(live.queue)[2]
       IN  /\ ~(scientist \in live.visited \/ depth > MAX_DEPTH)
           /\ live' = [live EXCEPT !.pc = "crashed", !.queue = Tail(@),
                                   !.cur = Head(live.queue),
                                   !.visited = @ \cup {scientist}]
    /\ UNCHANGED <<crawlVars, chrono, cacheVars, is_generating, extVars, fetched>>

\* server.py:148 and 168
LiveAccepts(target, scientist) == target # "" /\ ~IsSelf(target, scientist)

\* server.py:159-160 and 179-180
LiveEnqueue(q, seen, target, depth) ==
    IF target \notin seen THEN Append(q, <<target, depth + 1>>) ELSE q

\* server.py:146-163
LiveProcessInspiration ==
    /\ pc = "server" /\ live.pc = "inspirations"
    /\ live.idx <= Len(Get(live.relations, "inspirations"))
    /\ LET target == Get(live.relations, "inspirations")[live.idx]
           scientist == live.cur[1]
       IN  IF LiveAccepts(target, scientist)
           THEN live' = [live EXCEPT
                           !.graph = AddEdge(@, target, scientist),
                           !.queue = LiveEnqueue(@, live.visited, target, live.cur[2]),
                           !.idx = @ + 1]
           ELSE live' = [live EXCEPT !.idx = @ + 1]
    /\ UNCHANGED <<crawlVars, chrono, cacheVars, is_generating, extVars, fetched>>

\* server.py:166
LiveBeginInspired ==
    /\ pc = "server" /\ live.pc = "inspirations"
    /\ live.idx > Len(Get(live.relations, "inspirations"))
    /\ live' = [live EXCEPT !.pc = "inspired", !.idx = 1]
    /\ UNCHANGED <<crawlVars, chrono, cacheVars, is_generating, extVars, fetched>>

\* server.py:166-183
LiveProcessInspired ==
    /\ pc = "server" /\ live.pc = "inspired"
    /\ live.idx <= Len(Get(live.relations, "inspired"))
    /\ LET target == Get(live.relations, "inspired")[live.idx]
           scientist == live.cur[1]
       IN  IF LiveAccepts(target, scientist)
           THEN live' = [live EXCEPT
                           !.graph = AddEdge(@, scientist, target),
                           !.queue = LiveEnqueue(@, live.visited, target, live.cur[2]),
                           !.idx = @ + 1]
           ELSE live' = [live EXCEPT !.idx = @ + 1]
    /\ UNCHANGED <<crawlVars, chrono, cacheVars, is_generating, extVars, fetched>>

\* server.py:185-187: an exception inside the try block ends the iteration
\* without the checkpoint
LiveTryRaises ==
    /\ pc = "server" /\ live.pc \in {"inspirations", "inspired"}
    /\ live' = [live EXCEPT !.pc = "loop"]
    /\ UNCHANGED <<crawlVars, chrono, cacheVars, is_generating, extVars, fetched>>

\* nx.write_gexf(graph, GEXF_PATH): the file is written, or the call raises
\* before or while writing
WriteGexf(g, f, outcome) ==
    CASE outcome = "written" -> GexfFile(g)
      [] outcome = "failed"  -> f
      [] outcome = "partial" -> CorruptFile

\* server.py:189-192: the iteration ends, with the checkpoint when it is due;
\* write_gexf is outside the try block
LiveEndIteration ==
    /\ pc = "server" /\ live.pc = "inspired"
    /\ live.idx > Len(Get(live.relations, "inspired"))
    /\ IF live.node_count % CHECKPOINT_EVERY = 0
       THEN \E outcome \in {"written", "failed", "partial"} :
               /\ file' = WriteGexf(live.graph, file, outcome)
               /\ live' = [live EXCEPT
                             !.pc = IF outcome = "written" THEN "loop" ELSE "crashed"]
       ELSE /\ live' = [live EXCEPT !.pc = "loop"]
            /\ UNCHANGED file
    /\ UNCHANGED <<pc, queue, visited, graph, cur, relations, idx, chrono, cacheVars,
                   is_generating, extVars, fetched>>

\* variant: the thread ends without the final save
LiveExitLoopNoSave ==
    /\ pc = "server" /\ live.pc = "loop" /\ ~LiveLoopRuns
    /\ live' = [NoWorker EXCEPT !.runs = live.runs]
    /\ is_generating' = FALSE
    /\ UNCHANGED <<crawlVars, chrono, cacheVars, extVars, fetched>>

\* server.py:194-213: the final save, then the flag is cleared; when the
\* save raises the thread dies and the flag stays as it is
LiveExitLoop ==
    /\ pc = "server" /\ live.pc = "loop" /\ ~LiveLoopRuns
    /\ \E outcome \in {"written", "failed", "partial"} :
          /\ file' = WriteGexf(live.graph, file, outcome)
          /\ IF outcome = "written"
             THEN /\ live' = [NoWorker EXCEPT !.runs = live.runs]
                  /\ is_generating' = FALSE
             ELSE /\ live' = [live EXCEPT !.pc = "crashed"]
                  /\ UNCHANGED is_generating
    /\ UNCHANGED <<pc, queue, visited, graph, cur, relations, idx, chrono, cacheVars, extVars, fetched>>

NextLive ==
    \/ HandleStart
    \/ HandleStop
    \/ LiveBegin
    \/ LiveSkipEntry
    \/ LiveFetchFails
    \/ LiveVisit
    \/ LiveVisitRaises
    \/ LiveProcessInspiration
    \/ LiveBeginInspired
    \/ LiveProcessInspired
    \/ LiveTryRaises
    \/ LiveEndIteration
    \/ LiveExitLoop

\* either program, started on an empty output directory
InitCrawls ==
    /\ pc \in {"start", "server"}
    /\ queue = <<>> /\ visited = {} /\ graph = EmptyGraph
    /\ cur = <<START_SCIENTIST, 0>> /\ relations = NoRelations /\ idx = 1
    /\ file = NoFile /\ chrono = NoCall /\ InitCache /\ InitLive /\ InitExt

SpecCrawls == InitCrawls /\ [][Next \/ NextLive]_vars

(***************************************************************************)
(* Properties of the crawl                                                 *)
(***************************************************************************)
HasDepth(g, n) == HasNode(g, n) /\ g.attrs[n].depth.t # "none"
DepthOf(g, n) == ParentDepth(g.attrs[n].depth)
Linked(g, a, b) == <<a, b>> \in g.edges \/ <<b, a>> \in g.edges

\* the names an answer gives as influences of the subject: the extractor's
\* key is "inspirations" (llm_extractor.py:113, 181, 224)
NamedInfluences(rel) == Get(rel, "inspirations") \o Get(rel, "inspired_by")

\* C1: when the for loop over the influences of an expanded subject is over,
\* every named influence that differs from the subject and passes the name
\* filter and the chronology check has its edge to the subject, and a queue
\* entry at depth + 1 when it is not visited.
C1_InfluenceBecomesEdge ==
    pc = "inspired" =>
        \A i \in 1..Len(NamedInfluences(relations)) :
            LET person == NamedInfluences(relations)[i]
            IN  (/\ person # cur[1]
                 /\ IsValidName(person)
                 /\ IsChronologicallyValid(graph, cur[1], person, "inspired_by"))
                => /\ <<person, cur[1]>> \in graph.edges
                   /\ person \notin visited =>
                        \E k \in 1..Len(queue) : queue[k] = <<person, cur[2] + 1>>

\* C2: no edge of the graph has the same source and target, in the crawl of
\* GraphBuilder and in the live crawl of the server, whatever names the
\* extractor returns.
C2_NoSelfLoops ==
    /\ \A e \in graph.edges : e[1] # e[2]
    /\ \A e \in live.graph.edges : e[1] # e[2]
    /\ file.kind = "gexf" => \A e \in file.graph.edges : e[1] # e[2]

\* C2 witness: the live crawl was given the subject's own name in both lists
\* and went through them, adding an edge for another name
C2_Witness ==
    /\ pc = "server" /\ live.pc = "inspired"
    /\ live.idx > Len(Get(live.relations, "inspired"))
    /\ live.cur[1] \in SeqToSet(Get(live.relations, "inspirations"))
    /\ live.cur[1] \in SeqToSet(Get(live.relations, "inspired"))
    /\ live.graph.edges # {}

\* C3 (as stated): every edge from a visited node p to a visited node n other
\* than the seed has depth(n) = depth(p) + 1, and depth(n) <= MAX_DEPTH.
C3_EveryEdgeOneDeeper ==
    \A e \in graph.edges :
        (/\ HasDepth(graph, e[1]) /\ HasDepth(graph, e[2])
         /\ e[2] # START_SCIENTIST)
        => /\ DepthOf(graph, e[2]) = DepthOf(graph, e[1]) + 1
           /\ DepthOf(graph, e[2]) <= MAX_DEPTH

\* C3 (amended): every node with a depth above 0 is linked to a node whose
\* depth is one less (the subject whose expansion enqueued it), and no depth
\* exceeds MAX_DEPTH.
C3_ParentOneShallower ==
    \A n \in DOMAIN graph.attrs :
        HasDepth(graph, n) =>
            /\ DepthOf(graph, n) <= MAX_DEPTH
            /\ DepthOf(graph, n) > 0 =>
                 \E p \in DOMAIN graph.attrs :
                     /\ HasDepth(graph, p)
                     /\ Linked(graph, p, n)
                     /\ DepthOf(graph, n) = DepthOf(graph, p) + 1

\* C3 witness: a node sits two levels below the seed
C3_Witness ==
    \E n \in DOMAIN graph.attrs :
        HasDepth(graph, n) /\ DepthOf(graph, n) = 2 /\ n \in visited

\* C4 (as stated): the queue never holds two entries for the same name.
C4_QueueNamesDistinct ==
    \A i, j \in 1..Len(queue) : i # j => queue[i][1] # queue[j][1]

\* a step of the relation loops appends entries for unvisited names only
AppendsOnlyUnvisitedStep ==
    pc \in {"inspired_by", "inspired"} =>
         \A k \in 1..Len(queue') : k > Len(queue) => queue'[k][1] \notin visited

\* C4 (amended): an entry the crawl appends to the queue is for a name that
\* is not visited at that moment (the queue may hold several entries for a
\* name that is not visited yet).
C4_AppendsOnlyUnvisited == [][AppendsOnlyUnvisitedStep]_vars

\* C4 witness: a name discovered while an entry for it was still waiting
C4_Witness ==
    /\ pc \in {"inspired_by", "inspired"}
    /\ \E i, j \in 1..Len(queue) :
           i < j /\ queue[i][1] = queue[j][1] /\ queue[i][2] < queue[j][2]

\* a step inside a run keeps the visited names and their depths, and adds a
\* name only at its dequeue
VisitedOnceStep ==
    (pc # "start" /\ pc' # "start") =>
         /\ \A n \in visited :
                /\ n \in visited'
                /\ HasDepth(graph, n) =>
                     HasDepth(graph', n) /\ DepthOf(graph', n) = DepthOf(graph, n)
         /\ \A n \in visited' \ visited :
                pc = "loop" /\ n = Head(queue)[1] /\ ~Skipped(n, Head(queue)[2])
         /\ (pc = "loop" /\ pc' = "inspired_by") => cur'[1] \notin visited

\* C5: inside a run a visited subject stays visited and keeps its depth, a
\* subject becomes visited only by a dequeue that passed the skip checks, and
\* only that dequeue expands it.
C5_VisitedOnce == [][VisitedOnceStep]_vars

\* C5 witness: a later entry for a visited name, with another depth, was
\* dequeued and dropped
C5_Witness ==
    /\ pc = "loop"
    /\ cur[1] \in visited /\ HasDepth(graph, cur[1])
    /\ DepthOf(graph, cur[1]) < cur[2]

\* the birth year the chronology check works with for a node
BirthAtCheck(g, n) == IF Falsy(NodeBirth(g, n)) THEN WikiBirth(n) ELSE NodeBirth(g, n)

\* the edges a step of the relation loops adds
EdgesAreCheckedStep ==
    pc \in {"inspired_by", "inspired"} =>
         \A e \in graph'.edges \ graph.edges :
             LET person == IF e[1] = cur[1] THEN e[2] ELSE e[1]
             IN  /\ cur[1] \in {e[1], e[2]}
                 /\ IsValidName(person)
                 /\ (~Falsy(BirthAtCheck(graph, e[1])) /\ ~Falsy(BirthAtCheck(graph, e[2])))
                    => BirthAtCheck(graph, e[1]) <= BirthAtCheck(graph, e[2]) + margin

\* C6: an edge the crawl adds joins the subject and a candidate that passes
\* the name filter, and when both birth years are known the source is born
\* no later than the target plus the margin.
C6_EdgesAreChecked == [][EdgesAreCheckedStep]_vars

\* C6 witness: one edge of each direction was added with known birth years
C6_Witness ==
    /\ <<"Ernst Mach", "Albert Einstein">> \in graph.edges
    /\ <<"Albert Einstein", "Niels Bohr">> \in graph.edges
    /\ cur[1] = "Albert Einstein"

(***************************************************************************)
(* The chronology check on its own                                         *)
(***************************************************************************)
\* birth years tried around 1879 on each side
YearSpan == 7
ChronoYears == {NoneYear, 0} \cup ((1879 - YearSpan)..(1879 + YearSpan))

Idle ==
    /\ queue = <<>> /\ visited = {} /\ file = NoFile
    /\ cur = <<START_SCIENTIST, 0>> /\ relations = NoRelations /\ idx = 1

\* a graph in which the current subject was visited with some birth year and
\* the target is absent or present with some birth year
InitChrono ==
    /\ pc = "chrono"
    /\ Idle /\ InitCache /\ InitLive /\ InitExt
    /\ \E current \in Names, target \in Names, inGraph \in BOOLEAN,
          cb \in ChronoYears, tb \in ChronoYears,
          relation_type \in {"inspired_by", "inspired"} :
          /\ current # target
          /\ inGraph \/ tb = NoneYear
          /\ graph = LET g == AddNode(EmptyGraph, current,
                                 [depth |-> DInt(0), field |-> "Other", birth_year |-> cb])
                     IN  IF inGraph
                         THEN AddNode(g, target, [NoAttrs EXCEPT !.birth_year = tb])
                         ELSE g
          /\ chrono = [current |-> current, target |-> target,
                       relation_type |-> relation_type, result |-> TRUE,
                       done |-> FALSE]

\* lines 131-185
CheckChronology ==
    /\ pc = "chrono" /\ ~chrono.done
    /\ chrono' = [chrono EXCEPT
                    !.result = IsChronologicallyValid(graph, chrono.current,
                                   chrono.target, chrono.relation_type),
                    !.done = TRUE]
    /\ graph' = BackfillBirth(graph, chrono.current)
    /\ UNCHANGED <<pc, queue, visited, file, cur, relations, idx, cacheVars, liveVars, extVars, fetched>>

\* lines 147 and 158: extract_years raises
CheckChronologyRaises ==
    /\ pc = "chrono" /\ ~chrono.done
    /\ ChronoCallsWiki(graph, chrono.current, chrono.target)
    /\ pc' = "crashed"
    /\ UNCHANGED <<queue, visited, graph, file, cur, relations, idx, chrono, cacheVars, liveVars, extVars, fetched>>

NextChrono == CheckChronology \/ CheckChronologyRaises

SpecChrono == InitChrono /\ [][NextChrono]_vars

Known(year) == ~Falsy(year)

\* C7: the check returns false exactly when both birth years are known and
\* the candidate is born more than 5 years after the subject (inspired_by) or
\* more than 5 years before it (inspired); it returns true otherwise.
C7_ChronologyVerdict ==
    (pc = "chrono" /\ chrono.done) =>
        LET cb == BirthAtCheck(graph, chrono.current)
            tb == BirthAtCheck(graph, chrono.target)
        IN  chrono.result = FALSE <=>
              /\ Known(cb) /\ Known(tb)
              /\ \/ chrono.relation_type = "inspired_by" /\ tb > cb + 5
                 \/ chrono.relation_type = "inspired" /\ tb < cb - 5

\* C7 witness: the boundary of the inspired_by direction was checked and let through
C7_Witness ==
    /\ pc = "chrono" /\ chrono.done /\ chrono.result
    /\ chrono.relation_type = "inspired_by"
    /\ Known(NodeBirth(graph, chrono.current))
    /\ NodeBirth(graph, chrono.target) = NodeBirth(graph, chrono.current) + 5

(***************************************************************************)
(* The resume on its own, over persisted graphs of any shape               *)
(***************************************************************************)
\* largest int depth found in a persisted file
MaxFileDepth == 1
FileNames == {"Albert Einstein", "Ernst Mach", "Niels Bohr"}
FileDepths == {DNone} \cup {DInt(k) : k \in 0..MaxFileDepth} \cup {DStr("1"), DStr("x")}
Orders(S) == {o \in [1..Cardinality(S) -> S] : \A i, j \in DOMAIN o : i # j => o[i] # o[j]}

\* a persisted graph: the nodes in file order, their depth attribute, the edges
FileGraph(o, d, es) ==
    [order |-> o,
     attrs |-> [n \in DOMAIN d |-> [depth |-> d[n],
                                   field |-> IF d[n] = DNone THEN "" ELSE "Other",
                                   birth_year |-> IF d[n] = DNone THEN NoneYear ELSE 0]],
     edges |-> es]

InitResume ==
    /\ InitRun /\ InitCache /\ InitLive /\ InitExt /\ chrono = NoCall
    /\ \/ file \in {NoFile, CorruptFile}
       \/ \E S \in SUBSET FileNames :
            \E o \in Orders(S), d \in [S -> FileDepths],
               es \in SUBSET {e \in S \X S : e[1] # e[2]} :
                file = GexfFile(FileGraph(o, d, es))

SpecResume == InitResume /\ [][LoadExistingGraph]_vars

\* the rebuild of the candidates runs to its end: every parent depth it
\* reads is an int or a decimal string
RebuildCompletes(g) ==
    \A e \in g.edges :
        /\ (HasDepth(g, e[1]) /\ ~HasDepth(g, e[2])) => DepthParses(g.attrs[e[1]].depth)
        /\ (HasDepth(g, e[2]) /\ ~HasDepth(g, e[1])) => DepthParses(g.attrs[e[2]].depth)

NeighbourDepths(g, c) ==
    {DepthOf(g, p) + 1 : p \in {p \in DOMAIN g.attrs : HasDepth(g, p) /\ Linked(g, p, c)}}

Resumable(g) ==
    {c \in DOMAIN g.attrs : ~HasDepth(g, c) /\ NeighbourDepths(g, c) # {}}

QueueIsResumable(g) ==
    /\ Len(queue) = Cardinality(Resumable(g))
    /\ {queue[i][1] : i \in 1..Len(queue)} = Resumable(g)
    /\ \A i \in 1..Len(queue) :
           /\ queue[i][2] \in NeighbourDepths(g, queue[i][1])
           /\ \A d \in NeighbourDepths(g, queue[i][1]) : queue[i][2] <= d
    /\ \A i, j \in 1..Len(queue) : i < j => queue[i][2] <= queue[j][2]

C9_FailedLoadStartsFresh ==
    (/\ pc = "loop"
     /\ \/ file.kind \in {"absent", "corrupt"}
        \/ file.kind = "gexf" /\ ~RebuildCompletes(file.graph))
    => /\ queue = << <<START_SCIENTIST, 0>> >>
       /\ visited = {}
       /\ graph = EmptyGraph

(***************************************************************************)
(* ResponseCache: CacheManager                                             *)
(***************************************************************************)
\* a biography: its first 5000 characters and what follows them
CacheTexts == {[head |-> "a", tail |-> ""], [head |-> "a", tail |-> "x"],
               [head |-> "b", tail |-> ""]}
CacheSubjects == {"Albert Einstein"}
PolicyVersions == {PROMPT_VERSION, "v2.1"}
CacheResults == {NoRelations, [inspirations |-> <<"Ernst Mach">>, inspired |-> <<>>]}
\* most get calls counted by the statistics of one CacheManager
MaxGets == 1

\* variant: the policy version is left out of the digest
GenerateKeyIgnoringVersion(version, text, scientist_name) ==
    <<scientist_name, "", text.head>>

\* lines 31-35: the digest of "name|version|text[:5000]"; MD5 is taken to be
\* free of collisions, so the digest is modelled by the content it is made of
GenerateKey(version, text, scientist_name) == <<scientist_name, version, text.head>>

\* lines 74-81 (text_length and timestamp are left out: nothing reads them)
CacheEntry(version, text, scientist_name, result) ==
    [kind |-> "json", scientist_name |-> scientist_name, prompt_version |-> version,
     text_hash |-> <<text.head, text.tail>>, result |-> result]
CorruptEntry ==
    [kind |-> "corrupt", scientist_name |-> "", prompt_version |-> "",
     text_hash |-> <<"", "">>, result |-> NoRelations]

Put(dir, key, entry) == [k \in DOMAIN dir \cup {key} |-> IF k = key THEN entry ELSE dir[k]]
Remove(dir, keys) == [k \in DOMAIN dir \ keys |-> dir[k]]

\* variant: an entry that exists is not written again
WriteEntryOnce(dir, key, entry, outcome) ==
    IF key \in DOMAIN dir THEN dir ELSE Put(dir, key, entry)

\* lines 83-87: open(path, 'w') and json.dump; an IOError is swallowed, at
\* open (the file is as before) or while writing (the file is cut short)
WriteEntry(dir, key, entry, outcome) ==
    CASE outcome = "written" -> Put(dir, key, entry)
      [] outcome = "failed"  -> dir
      [] outcome = "partial" -> Put(dir, key, CorruptEntry)

\* variant: the version of an entry is compared with the constant
IsHitDefaultVersion(dir, version, key) ==
    /\ key \in DOMAIN dir
    /\ dir[key].kind = "json"
    /\ dir[key].prompt_version = PROMPT_VERSION

\* lines 49-67
IsHit(dir, version, key) ==
    /\ key \in DOMAIN dir
    /\ dir[key].kind = "json"
    /\ dir[key].prompt_version = version

\* CacheManager.set
CacheSet ==
    /\ pc = "cache"
    /\ \E text \in CacheTexts, scientist_name \in CacheSubjects,
          result \in CacheResults, outcome \in {"written", "failed", "partial"} :
          LET key == GenerateKey(prompt_version, text, scientist_name)
          IN  /\ cache_dir' = WriteEntry(cache_dir, key,
                                  CacheEntry(prompt_version, text, scientist_name, result),
                                  outcome)
              /\ lastSet' = IF outcome = "written" THEN Put(lastSet, key, result)
                             ELSE Remove(lastSet, {key})
    /\ UNCHANGED <<crawlVars, chrono, liveVars, prompt_version, stats, got, extVars, fetched>>

\* CacheManager.get
CacheGet ==
    /\ pc = "cache"
    /\ stats.hits + stats.misses < MaxGets
    /\ \E text \in CacheTexts, scientist_name \in CacheSubjects :
          LET key == GenerateKey(prompt_version, text, scientist_name)
          IN  IF IsHit(cache_dir, prompt_version, key)
              THEN /\ stats' = [stats EXCEPT !.hits = @ + 1]
                   /\ got' = [key |-> key, hit |-> TRUE, result |-> cache_dir[key].result]
              ELSE /\ stats' = [stats EXCEPT !.misses = @ + 1]
                   /\ got' = [key |-> key, hit |-> FALSE, result |-> NoRelations]
    /\ UNCHANGED <<crawlVars, chrono, liveVars, cache_dir, prompt_version, lastSet, extVars, fetched>>

\* CacheManager.clear(confirm=True)
CacheClear ==
    /\ pc = "cache"
    /\ cache_dir' = <<>>
    /\ stats' = [hits |-> 0, misses |-> 0]
    /\ lastSet' = <<>>
    /\ UNCHANGED <<crawlVars, chrono, liveVars, prompt_version, got, extVars, fetched>>

\* CacheManager.invalidate_version
InvalidateVersion ==
    /\ pc = "cache"
    /\ \E old_version \in PolicyVersions :
          LET gone == {k \in DOMAIN cache_dir :
                          /\ cache_dir[k].kind = "json"
                          /\ cache_dir[k].prompt_version = old_version}
          IN  /\ cache_dir' = Remove(cache_dir, gone)
              /\ lastSet' = Remove(lastSet, gone)
    /\ UNCHANGED <<crawlVars, chrono, liveVars, prompt_version, stats, got, extVars, fetched>>

\* the program is started with another PROMPT_VERSION: a new CacheManager
\* on the same directory
ChangeVersion ==
    /\ pc = "cache"
    /\ \E version \in PolicyVersions \ {prompt_version} : prompt_version' = version
    /\ stats' = [hits |-> 0, misses |-> 0]
    /\ UNCHANGED <<crawlVars, chrono, liveVars, cache_dir, got, lastSet, extVars, fetched>>

NextCache == CacheSet \/ CacheGet \/ CacheClear \/ InvalidateVersion \/ ChangeVersion

\* a CacheManager on an empty cache directory, no crawl running
InitCacheOnly ==
    /\ pc = "cache"
    /\ queue = <<>> /\ visited = {} /\ file = NoFile
    /\ cur = <<START_SCIENTIST, 0>> /\ relations = NoRelations /\ idx = 1
    /\ graph = EmptyGraph
    /\ chrono = NoCall
    /\ cache_dir = <<>>
    /\ prompt_version = PROMPT_VERSION
    /\ stats = [hits |-> 0, misses |-> 0]
    /\ got = NoGet
    /\ lastSet = <<>>
    /\ is_generating = FALSE /\ live = NoWorker
    /\ config = DefaultConfig /\ ext = NoExtract /\ parsed = NoParse /\ tally = NoTally
    /\ server = NoServer /\ val = NoVal /\ nf = NoFilter
    /\ fetched = {}

SpecCache == InitCacheOnly /\ [][NextCache]_vars

\* a step of get on a key whose most recent set was written
GetReturnsLastSetStep ==
    (/\ stats'.hits + stats'.misses = stats.hits + stats.misses + 1
     /\ got'.key \in DOMAIN lastSet)
    => (got'.hit /\ got'.result = lastSet[got'.key])

\* C10: for a fixed subject, text and policy version, a get returns exactly
\* the result of the most recent set on that key, when the write of that set
\* succeeded and no purge came after it; a second set with another result
\* replaces the first.
C10_GetReturnsLastSet == [][GetReturnsLastSetStep]_vars

\* C10 witness: a get hit an entry that a second set had replaced
C10_Witness ==
    /\ pc = "cache"
    /\ got.hit
    /\ got.key \in DOMAIN lastSet
    /\ got.result = lastSet[got.key]
    /\ got.result # NoRelations
    /\ cache_dir[got.key].text_hash[2] = "x"

\* the entries on disk that were written under a version other than the
\* current one
StaleKeys ==
    {k \in DOMAIN cache_dir :
        cache_dir[k].kind = "json" /\ cache_dir[k].prompt_version # prompt_version}

\* a step of get for a subject and text that hit under another version, with
\* nothing stored under the current one, and what any step does to the
\* entries of another version
StaleEntryStep ==
    /\ (/\ stats'.hits + stats'.misses = stats.hits + stats.misses + 1
        /\ got'.key \notin DOMAIN cache_dir
        /\ \E old \in PolicyVersions \ {prompt_version} :
               IsHit(cache_dir, old, <<got'.key[1], old, got'.key[3]>>))
       => /\ ~got'.hit
          /\ stats'.misses = stats.misses + 1 /\ stats'.hits = stats.hits
          /\ cache_dir' = cache_dir
    /\ \A k \in StaleKeys :
          \/ k \in DOMAIN cache_dir' /\ cache_dir'[k] = cache_dir[k]
          \/ /\ stats' = [hits |-> 0, misses |-> 0] /\ cache_dir' = <<>>
          \/ /\ k \notin DOMAIN cache_dir'
             /\ \A j \in DOMAIN cache_dir' :
                    cache_dir'[j].kind = "json" =>
                        cache_dir'[j].prompt_version # cache_dir[k].prompt_version
             /\ \A j \in DOMAIN cache_dir' : cache_dir'[j] = cache_dir[j]

\* C11: after the policy version is changed, a get for a subject and text
\* that hit under the old version is a miss, counted in misses, when nothing
\* is stored for them under the new version; the get leaves the old entry as
\* it is, and an entry of another version stays on disk unchanged until a
\* clear or an invalidate_version of its version removes it.
C11_StaleEntryMissesAndStays == [][StaleEntryStep]_vars

\* C11 witness: the get missed under the new version while the entry of the
\* old version, written by a set, is still on disk
C11_Witness ==
    /\ pc = "cache"
    /\ prompt_version # PROMPT_VERSION
    /\ ~got.hit /\ got.key # <<>> /\ got.key[2] = prompt_version
    /\ stats = [hits |-> 0, misses |-> 1]
    /\ LET old == <<got.key[1], PROMPT_VERSION, got.key[3]>>
       IN  /\ IsHit(cache_dir, PROMPT_VERSION, old)
           /\ old \in DOMAIN lastSet
           /\ cache_dir[old].result = lastSet[old]
           /\ cache_dir[old].result # NoRelations
    /\ got.key \notin DOMAIN cache_dir

(***************************************************************************)
(* Response parsing: LLMExtractor._parse_json_response                     *)
(*                                                                         *)
(* A responder's text is a sequence of tokens: braces, commas, members of  *)
(* a JSON object and prose.  Nested objects are left out.                  *)
(***************************************************************************)
LB == "{"
RB == "}"
COMMA == ","
TXT == "Here is the JSON"
Members == {"\"inspirations\": [\"Ernst Mach\"]", "\"inspired\": []", "\"foo\": []"}
Tokens == {LB, RB, COMMA, TXT} \cup Members
\* longest responder text tried
MaxResponseLen == 5

MemberKey(m) ==
    CASE m = "\"inspirations\": [\"Ernst Mach\"]" -> "inspirations"
      [] m = "\"inspired\": []" -> "inspired"
      [] m = "\"foo\": []" -> "foo"
MemberValue(m) ==
    IF m = "\"inspirations\": [\"Ernst Mach\"]" THEN <<"Ernst Mach">> ELSE <<>>

\* str.find('{') and str.rfind('}'), positions counted from 0, -1 when absent
Find(response, token) ==
    IF \E i \in 1..Len(response) : response[i] = token
    THEN (CHOOSE i \in 1..Len(response) :
            /\ response[i] = token
            /\ \A j \in 1..(i - 1) : response[j] # token) - 1
    ELSE -1
RFind(response, token) ==
    IF \E i \in 1..Len(response) : response[i] = token
    THEN (CHOOSE i \in 1..Len(response) :
            /\ response[i] = token
            /\ \A j \in (i + 1)..Len(response) : response[j] # token) - 1
    ELSE -1

\* response[start:end]
Slice(response, start, end) == SubSeq(response, start + 1, end)

\* json.loads accepts the text: an object of members separated by commas
IsJsonObject(s) ==
    /\ Len(s) >= 2
    /\ s[1] = LB
    /\ s[Len(s)] = RB
    /\ LET inner == SubSeq(s, 2, Len(s) - 1)
       IN  \/ inner = <<>>
           \/ /\ Len(inner) % 2 = 1
              /\ \A i \in 1..Len(inner) :
                    IF i % 2 = 1 THEN inner[i] \in Members ELSE inner[i] = COMMA

EmptyDict == [k \in {} |-> <<>>]

\* the dict json.loads builds: a later member replaces an earlier one of
\* the same key
RECURSIVE ObjectOf(_, _)
ObjectOf(inner, dict) ==
    IF inner = <<>> THEN dict
    ELSE IF Head(inner) = COMMA THEN ObjectOf(Tail(inner), dict)
    ELSE ObjectOf(Tail(inner),
                  [k \in DOMAIN dict \cup {MemberKey(Head(inner))} |->
                      IF k = MemberKey(Head(inner)) THEN MemberValue(Head(inner))
                      ELSE dict[k]])

JsonLoads(s) == ObjectOf(SubSeq(s, 2, Len(s) - 1), EmptyDict)

\* variant: a text without a JSON object gives None
ParseJsonResponseOrNone(response) ==
    LET start == Find(response, LB)
        end == RFind(response, RB) + 1
    IN  IF start # -1 /\ end > start /\ IsJsonObject(Slice(response, start, end))
        THEN JsonLoads(Slice(response, start, end))
        ELSE [None |-> TRUE]

\* lines 326-335
ParseJsonResponse(response) ==
    LET start == Find(response, LB)
        end == RFind(response, RB) + 1
    IN  IF start # -1 /\ end > start /\ IsJsonObject(Slice(response, start, end))
        THEN JsonLoads(Slice(response, start, end))
        ELSE [inspirations |-> <<>>, inspired |-> <<>>]

\* a call of _parse_json_response
ParseCall ==
    /\ pc = "parse"
    /\ ~parsed.done
    /\ parsed' = [parsed EXCEPT !.result = ParseJsonResponse(parsed.response),
                                !.done = TRUE]
    /\ UNCHANGED <<crawlVars, chrono, cacheVars, liveVars, config, ext, tally, server, val, nf, fetched>>

\* any responder text of up to MaxResponseLen tokens
InitParse ==
    /\ pc = "parse"
    /\ Idle /\ graph = EmptyGraph /\ chrono = NoCall /\ InitCache /\ InitLive
    /\ config = DefaultConfig /\ ext = NoExtract /\ tally = NoTally /\ fetched = {}
    /\ server = NoServer /\ val = NoVal /\ nf = NoFilter
    /\ \E n \in 0..MaxResponseLen : \E response \in [1..n -> Tokens] :
          parsed = [response |-> response, result |-> NoRelations, done |-> FALSE]

SpecParse == InitParse /\ [][ParseCall]_vars

(***************************************************************************)
(* Extraction: LLMExtractor.extract_relations                              *)
(***************************************************************************)
Responders == <<"Cerebras", "Groq", "Mistral", "OpenAI", "Ollama">>
ExtractTexts == {[head |-> "a", tail |-> ""], [head |-> "b", tail |-> ""]}
\* most extract_relations calls of one history
MaxCalls == 2

\* what a contacted responder does: the call raises (no connection, a
\* timeout), the status is not 200, or a text comes back
ResponseSamples ==
    {<<TXT>>, <<LB, RB>>, <<LB, "\"foo\": []", RB>>,
     <<TXT, LB, "\"inspirations\": [\"Ernst Mach\"]", COMMA, "\"inspired\": []", RB>>}
Raises == [kind |-> "raises", text |-> <<>>]
BadStatus == [kind |-> "status", text |-> <<>>]
\* the Groq and OpenAI clients raise on an error status
AnswersOf(responder) ==
    {Raises} \cup {[kind |-> "text", text |-> t] : t \in ResponseSamples}
    \cup (IF responder \in {"Groq", "OpenAI"} THEN {} ELSE {BadStatus})

\* lines 231-324: what _call_<responder> returns for an answer
CallResult(answer) ==
    IF answer.kind = "text" THEN ParseJsonResponse(answer.text) ELSE None

\* lines 203-222: the condition under which _call_<responder> is called
Called(responder, conf, result) ==
    CASE responder = "Cerebras" -> conf.use_cerebras
      [] responder = "Groq"     -> result = None /\ conf.use_groq
      [] responder = "Mistral"  -> result = None /\ conf.use_mistral
      [] responder = "OpenAI"   -> result = None /\ conf.openai_key
      [] responder = "Ollama"   -> result = None

\* lines 233, 271, 309: a call without its key returns None at once
Contacts(responder, conf) ==
    CASE responder = "Cerebras" -> conf.cerebras_key
      [] responder = "Mistral"  -> conf.mistral_key
      [] responder = "OpenAI"   -> conf.openai_key
      [] OTHER -> TRUE

\* lines 200-222: the runs of the chain from responder i on, each with the
\* responders contacted, what the last of them answered (the ones before it
\* raised or had an error status), and the result at the end
RECURSIVE Chain(_, _, _, _, _)
Chain(conf, i, result, contacted, answer) ==
    IF i > Len(Responders)
    THEN {[result |-> result, contacted |-> contacted, answer |-> answer]}
    ELSE IF ~Called(Responders[i], conf, result)
         THEN Chain(conf, i + 1, result, contacted, answer)
    ELSE IF ~Contacts(Responders[i], conf)
         THEN Chain(conf, i + 1, None, contacted, answer)
    ELSE UNION {Chain(conf, i + 1, CallResult(a), Append(contacted, Responders[i]), a) :
                    a \in AnswersOf(Responders[i])}

\* line 224: None and an empty dict are replaced
ExtractFinal(result) == FinalResult(IF result = None THEN <<>> ELSE result)

\* lines 194-229, with CacheManager.get and CacheManager.set
ExtractRelations ==
    /\ pc = "extract"
    /\ ext.calls < MaxCalls
    /\ \E text \in ExtractTexts, scientist_name \in CacheSubjects :
          LET key == GenerateKey(prompt_version, text, scientist_name)
          IN  IF IsHit(cache_dir, prompt_version, key)
              THEN /\ stats' = [stats EXCEPT !.hits = @ + 1]
                   /\ got' = [key |-> key, hit |-> TRUE, result |-> cache_dir[key].result]
                   /\ ext' = [calls |-> ext.calls + 1, key |-> key, hit |-> TRUE,
                              contacted |-> <<>>, answer |-> NoAnswer,
                              result |-> None,
                              returned |-> cache_dir[key].result, outcome |-> ""]
                   /\ UNCHANGED <<cache_dir, lastSet>>
              ELSE \E run \in Chain(config, 1, None, <<>>, NoAnswer),
                      outcome \in {"written", "failed", "partial"} :
                   LET final_result == ExtractFinal(run.result)
                   IN  /\ stats' = [stats EXCEPT !.misses = @ + 1]
                       /\ got' = [key |-> key, hit |-> FALSE, result |-> NoRelations]
                       /\ cache_dir' = WriteEntry(cache_dir, key,
                                          CacheEntry(prompt_version, text,
                                                     scientist_name, final_result),
                                          outcome)
                       /\ lastSet' = IF outcome = "written"
                                      THEN Put(lastSet, key, final_result)
                                      ELSE Remove(lastSet, {key})
                       /\ ext' = [calls |-> ext.calls + 1, key |-> key, hit |-> FALSE,
                                  contacted |-> run.contacted, answer |-> run.answer,
                                  result |-> run.result,
                                  returned |-> final_result, outcome |-> outcome]
    /\ UNCHANGED <<crawlVars, chrono, liveVars, prompt_version, config, parsed, tally, server, val, nf, fetched>>

\* the program is started with another PROMPT_VERSION, on the same cache
\* directory
ExtractChangeVersion ==
    /\ pc = "extract"
    /\ \E version \in PolicyVersions \ {prompt_version} : prompt_version' = version
    /\ stats' = [hits |-> 0, misses |-> 0]
    /\ UNCHANGED <<crawlVars, chrono, liveVars, cache_dir, got, lastSet, extVars, fetched>>

NextExtract == ExtractRelations \/ ExtractChangeVersion

\* an LLMExtractor on an empty cache directory, under any setting of the
\* responder switches and keys of config.py (the key of a responder that is
\* switched off is never read, so it is tried only with the switch on)
InitExtract ==
    /\ pc = "extract"
    /\ Idle /\ graph = EmptyGraph /\ chrono = NoCall /\ InitCache /\ InitLive
    /\ config \in [use_cerebras : BOOLEAN, cerebras_key : BOOLEAN, use_groq : BOOLEAN,
                   use_mistral : BOOLEAN, mistral_key : BOOLEAN, openai_key : BOOLEAN,
                   use_ollama : BOOLEAN]
    /\ config.cerebras_key => config.use_cerebras
    /\ config.mistral_key => config.use_mistral
    /\ ext = NoExtract /\ parsed = NoParse /\ tally = NoTally /\ fetched = {}
    /\ server = NoServer /\ val = NoVal /\ nf = NoFilter

SpecExtract == InitExtract /\ [][NextExtract]_vars

\* a call for a subject and text whose last call under this version wrote
\* its result to the cache
CachedCallStep ==
    (/\ ext'.calls = ext.calls + 1
     /\ ext'.key \in DOMAIN lastSet)
    => /\ ext'.hit
       /\ ext'.contacted = <<>>
       /\ ext'.returned = lastSet[ext'.key]

\* C12: once extract_relations completed for a subject and text under a
\* policy version and its cache write succeeded, whatever the result (the
\* empty fallback included), every later call for the same subject and text
\* under that version returns the cached result and contacts no responder.
C12_CachedCallContactsNobody == [][CachedCallStep]_vars

\* C12 witness: the second call returned the cached empty fallback of the
\* first, whose responders had all failed, and contacted nobody
C12_Witness ==
    /\ pc = "extract"
    /\ ext.calls = 2 /\ ext.hit /\ ext.contacted = <<>>
    /\ ext.key \in DOMAIN lastSet
    /\ ext.returned = lastSet[ext.key]
    /\ ext.returned = NoRelations
    /\ stats = [hits |-> 1, misses |-> 1]

\* a responder is configured: switched on in config.py and, where the call
\* needs one, with its key set
Configured(responder, conf) ==
    CASE responder = "Cerebras" -> conf.use_cerebras /\ conf.cerebras_key
      [] responder = "Groq"     -> conf.use_groq
      [] responder = "Mistral"  -> conf.use_mistral /\ conf.mistral_key
      [] responder = "OpenAI"   -> conf.openai_key
      [] responder = "Ollama"   -> conf.use_ollama

\* the position of a responder in the fixed order
Rank(responder) == CHOOSE i \in 1..Len(Responders) : Responders[i] = responder

\* C13: on a cache miss the responders are tried in the order Cerebras,
\* Groq, Mistral, OpenAI, Ollama; a responder is contacted only if it is
\* configured and every responder before it returned null, and the result
\* of the first responder that returns a non-null parsed result is the one
\* returned.
C13_FallbackOrder ==
    (pc = "extract" /\ ext.calls > 0 /\ ~ext.hit) =>
        /\ \A i, j \in 1..Len(ext.contacted) :
              i < j => Rank(ext.contacted[i]) < Rank(ext.contacted[j])
        /\ \A i \in 1..Len(ext.contacted) : Configured(ext.contacted[i], config)
        /\ ext.result # None =>
              /\ ext.contacted # <<>>
              /\ ext.result = CallResult(ext.answer)
              /\ ext.returned = ext.result

\* the text holds no JSON object: no '{', no '}' after it, or what lies
\* between them does not parse
IsNonJson(response) ==
    LET start == Find(response, LB)
        end == RFind(response, RB) + 1
    IN  ~(start # -1 /\ end > start /\ IsJsonObject(Slice(response, start, end)))

\* the call missed the cache and no contacted responder gave JSON: the last
\* one raised or answered with non-JSON text (the ones before it raised or
\* had an error status, or the chain would have stopped at them)
AllRespondersFailed ==
    /\ pc = "extract" /\ ext.calls > 0 /\ ~ext.hit
    /\ ext.contacted # <<>>
    /\ \/ ext.answer.kind = "raises"
       \/ ext.answer.kind = "text" /\ IsNonJson(ext.answer.text)

\* C14: if every configured responder raises or returns non-JSON text,
\* extract_relations returns {"inspired_by": [], "inspired": []} without
\* raising, and the cache records this empty result under the key of the
\* given subject and text (here: when the cache file could be written).
C14_DegradesToEmpty ==
    (AllRespondersFailed /\ ext.outcome = "written") =>
        /\ ext.returned = [inspired_by |-> <<>>, inspired |-> <<>>]
        /\ IsHit(cache_dir, ext.key[2], ext.key)
        /\ cache_dir[ext.key].result = [inspired_by |-> <<>>, inspired |-> <<>>]

\* line 113 and the prompt: the keys a relation dict is to have
RequiredKeys == {"inspirations", "inspired"}

\* the JSON object between the first '{' and the last '}' of a text that
\* has one
ObjectIn(response) ==
    JsonLoads(Slice(response, Find(response, LB), RFind(response, RB) + 1))

\* C15: response parsing returns the empty relation set whenever the text
\* has no parseable JSON object between its first '{' and last '}', and
\* whenever the text parses as a JSON object that lacks the required
\* relation keys; a parsed object is returned as it is only when the
\* required keys are present.  The empty relation set is taken after line
\* 224 of extract_relations, which replaces an empty object.
C15_ParseKeepsOnlyRelations ==
    (pc = "parse" /\ parsed.done) =>
        IF ~IsNonJson(parsed.response)
           /\ RequiredKeys \subseteq DOMAIN ObjectIn(parsed.response)
        THEN parsed.result = ObjectIn(parsed.response)
        ELSE ExtractFinal(parsed.result) = [inspirations |-> <<>>, inspired |-> <<>>]

(***************************************************************************)
(* Checkpoints                                                             *)
(***************************************************************************)
\* what a step does once the loop of either crawl was left because its
\* queue was empty or its cap was reached
FinalCheckpointStep ==
    /\ (pc = "exited" /\ pc' # pc) =>
          /\ pc' = "done"
          /\ \E outcome \in {"written", "failed", "partial"} :
                file' = SaveGraph(graph, file, outcome)
    /\ (pc' = "done" /\ pc # "done") => pc = "exited"
    /\ (pc' = "exited" /\ pc # "exited") =>
          (queue = <<>> \/ Cardinality(visited) >= MAX_SCIENTISTS)
    /\ (/\ live.pc = "loop"
        /\ (live.queue = <<>> \/ live.node_count >= live.max_nodes)
        /\ live' # live) =>
          /\ \E outcome \in {"written", "failed", "partial"} :
                file' = WriteGexf(live.graph, file, outcome)
          /\ live'.pc = "idle" => file' = GexfFile(live.graph)

MaxTally == 24

\* lines 29-30, 70-84, 115-122: one iteration of the loop that marks its
\* subject visited.  A leaf (depth == MAX_DEPTH) leaves the iteration at
\* the continue of line 84, before the autosave of lines 120-122.
TallyVisit ==
    /\ pc = "tally"
    /\ tally.visited < MaxTally
    /\ \E depth \in {tally.depth, tally.depth + 1} :
          /\ depth <= MAX_DEPTH
          /\ tally.visited = 0 => depth = 0
          /\ tally.visited > 0 => depth > 0
          /\ tally' = [visited |-> tally.visited + 1,
                       depth |-> depth,
                       saved |-> IF depth # MAX_DEPTH
                                    /\ (tally.visited + 1) % AUTOSAVE_EVERY = 0
                                 THEN tally.visited + 1
                                 ELSE tally.saved]
    /\ UNCHANGED <<crawlVars, chrono, cacheVars, liveVars, config, ext, parsed, server, val, nf, fetched>>

InitTally ==
    /\ pc = "tally"
    /\ Idle /\ graph = EmptyGraph /\ chrono = NoCall /\ InitCache /\ InitLive
    /\ InitExt

SpecTally == InitTally /\ [][TallyVisit]_vars

\* C17: at every point of a crawl run the number of subjects marked visited
\* since the last checkpoint (or since the start of the run) is at most K
\* (AUTOSAVE_EVERY here, 20 in the program), also when subjects are
\* recorded as leaves at depth == max_depth.
C17_UnsavedAtMostK ==
    pc = "tally" => tally.visited - tally.saved <= AUTOSAVE_EVERY

(***************************************************************************)
(* The loop of build_influence_graph: its guard and what ends it           *)
(***************************************************************************)
\* the run is inside the while loop of lines 29-122
InLoop == pc \in {"loop", "inspired_by", "inspired"}

\* a step at the head of the loop that is not the exit takes an entry from
\* the queue; a step that leaves the loop leaves it with the queue empty or
\* the cap reached
LoopGuardStep ==
    /\ (pc = "loop" /\ pc' # "exited") => LoopRuns
    /\ Cardinality(visited') <= MAX_SCIENTISTS
    /\ (InLoop /\ pc' \notin {"loop", "inspired_by", "inspired"}) =>
          (queue' = <<>> \/ Cardinality(visited') >= MAX_SCIENTISTS)

\* C18: the crawl loop starts an iteration only while the queue is
\* non-empty and the visited count is below the configured maximum; the
\* visited count never exceeds that maximum; and the loop exits only when
\* the queue is empty or the visited count has reached the maximum.
C18_LoopGuard == [][LoopGuardStep]_vars

\* a step of a run that is inside the loop stays in the loop or leaves it
\* by the loop condition
StaysInLoopStep ==
    InLoop => pc' \in {"loop", "inspired_by", "inspired", "exited"}

\* C19: a failure (exception) of any text-source call made during a crawl
\* iteration (biography fetch, field classification, birth-year extraction,
\* scientist classification in the name filter) is caught and treated as no
\* data: it never terminates the crawl loop, and the loop goes on to the
\* next queue entry.
C19_TextSourceFailureIsCaught == [][StaysInLoopStep]_vars

\* a step that takes from the queue an entry which passes the preliminary
\* checks of lines 33-40 requests its biography (line 46); a subject whose
\* biography was requested and who is not visited has no depth
FetchOnceStep ==
    /\ (/\ pc = "loop" /\ LoopRuns
        /\ queue' = Tail(queue)
        /\ ~Skipped(Head(queue)[1], Head(queue)[2]))
       => Head(queue)[1] \notin fetched
    /\ \A n \in fetched' \ visited' : ~HasDepth(graph', n)

\* C20: no retry within a single pass: in one crawl run the biography of a
\* given subject is requested from the text source at most once, also when
\* that fetch raised or returned absent; the subject is then left unvisited
\* (no depth) until a later run resumed from the checkpoint.
C20_FetchedAtMostOnce == [][FetchOnceStep]_vars

(***************************************************************************)
(* The streaming server with several threads: server.py handle_start,      *)
(* handle_stop and run_live_generation, each thread reduced to its         *)
(* position, its node_count and the length of its queue                    *)
(***************************************************************************)
Workers == 1..MaxWorkers

\* the thread is between its first statement and its final save
Running(w) == server.workers[w].pc \in {"loop", "iterating"}

\* the graph of a thread that added n nodes, by the order of the names
CountGraph(n) ==
    LET order == <<"Albert Einstein", "Ernst Mach", "Niels Bohr", "Max Planck">>
    IN  [order |-> SubSeq(order, 1, n),
         attrs |-> [m \in {order[i] : i \in 1..n} |-> NoAttrs],
         edges |-> {}]

\* server.py:256-275: the request is turned down when the flag is set;
\* otherwise a thread is created and started, whatever threads exist
SrvStart ==
    /\ pc = "workers"
    /\ IF is_generating
       THEN server' = [server EXCEPT
                         !.last = [outcome |-> "rejected",
                                   busy |-> \E w \in Workers : Running(w)]]
       ELSE \E w \in Workers, n \in 1..MaxLiveNodes :
               /\ server.workers[w].pc = "none"
               /\ \A v \in Workers : v < w => server.workers[v].pc # "none"
               /\ server' = [server EXCEPT
                     !.workers[w] = [NoThread EXCEPT !.pc = "created", !.max_nodes = n],
                     !.last = [outcome |-> "started",
                               busy |-> \E v \in Workers : Running(v)]]
    /\ UNCHANGED <<crawlVars, chrono, cacheVars, liveVars, config, ext, parsed, tally, val, nf, fetched>>

\* server.py:278-283
SrvStop ==
    /\ pc = "workers"
    /\ is_generating' = FALSE
    /\ server' = [server EXCEPT !.stopped = @ \cup {w \in Workers : Running(w)}]
    /\ UNCHANGED <<crawlVars, chrono, cacheVars, live, config, ext, parsed, tally, val, nf, fetched>>

\* server.py:64-90: the thread sets the flag itself, then its locals
WorkerBegin(w) ==
    /\ pc = "workers" /\ server.workers[w].pc = "created"
    /\ is_generating' = TRUE
    /\ server' = [server EXCEPT !.workers[w].pc = "loop", !.workers[w].left = 1]
    /\ UNCHANGED <<crawlVars, chrono, cacheVars, live, config, ext, parsed, tally, val, nf, fetched>>

\* server.py:92
WorkerLoopRuns(w) ==
    /\ server.workers[w].left > 0
    /\ server.workers[w].node_count < server.workers[w].max_nodes
    /\ is_generating

\* server.py:92-93: the guard holds and an entry is popped
WorkerPop(w) ==
    /\ pc = "workers" /\ server.workers[w].pc = "loop" /\ WorkerLoopRuns(w)
    /\ server' = [server EXCEPT !.workers[w].pc = "iterating", !.workers[w].left = @ - 1]
    /\ UNCHANGED <<crawlVars, chrono, cacheVars, liveVars, config, ext, parsed, tally, val, nf, fetched>>

\* server.py:95-96, 111-112, 185-187: an iteration that ends with continue
WorkerContinue(w) ==
    /\ pc = "workers" /\ server.workers[w].pc = "iterating"
    /\ server' = [server EXCEPT !.workers[w].pc = "loop"]
    /\ UNCHANGED <<crawlVars, chrono, cacheVars, liveVars, config, ext, parsed, tally, val, nf, fetched>>

\* server.py:98-192: the node is added, names are queued, and the
\* checkpoint is written when it is due
WorkerIterationEnds(w) ==
    /\ pc = "workers" /\ server.workers[w].pc = "iterating"
    /\ \E pushed \in 0..1 :
          LET n == server.workers[w].node_count + 1
              l == server.workers[w].left + pushed
          IN  /\ l <= MaxLiveNodes
              /\ server' = [server EXCEPT !.workers[w].pc = "loop",
                                          !.workers[w].node_count = n,
                                          !.workers[w].left = l]
              /\ file' = IF n % CHECKPOINT_EVERY = 0 THEN GexfFile(CountGraph(n)) ELSE file
    /\ UNCHANGED <<pc, queue, visited, graph, cur, relations, idx, chrono, cacheVars,
                   liveVars, config, ext, parsed, tally, val, nf, fetched>>

\* server.py:92, 194-195: the guard fails and the final save is made
WorkerExit(w) ==
    /\ pc = "workers" /\ server.workers[w].pc = "loop" /\ ~WorkerLoopRuns(w)
    /\ file' = GexfFile(CountGraph(server.workers[w].node_count))
    /\ server' = [server EXCEPT !.workers[w].pc = "saved"]
    /\ UNCHANGED <<pc, queue, visited, graph, cur, relations, idx, chrono, cacheVars,
                   liveVars, config, ext, parsed, tally, val, nf, fetched>>

\* server.py:197-213: the flag is cleared after the visualisation
WorkerEnd(w) ==
    /\ pc = "workers" /\ server.workers[w].pc = "saved"
    /\ is_generating' = FALSE
    /\ server' = [server EXCEPT !.workers[w].pc = "done"]
    /\ UNCHANGED <<crawlVars, chrono, cacheVars, live, config, ext, parsed, tally, val, nf, fetched>>

NextServer ==
    \/ SrvStart
    \/ SrvStop
    \/ \E w \in Workers : WorkerBegin(w)
    \/ \E w \in Workers : WorkerPop(w)
    \/ \E w \in Workers : WorkerContinue(w)
    \/ \E w \in Workers : WorkerIterationEnds(w)
    \/ \E w \in Workers : WorkerExit(w)
    \/ \E w \in Workers : WorkerEnd(w)

InitServer ==
    /\ pc = "workers"
    /\ Idle /\ graph = EmptyGraph /\ chrono = NoCall /\ InitCache /\ InitLive
    /\ InitExt

SpecServer == InitServer /\ [][NextServer]_vars

\* C21: under every interleaving of start_generation and stop_generation
\* requests with the threads, at most one thread is running at any time, and
\* a start_generation request received while a thread is running is rejected.
C21_AtMostOneWorker ==
    pc = "workers" =>
        /\ Cardinality({w \in Workers : Running(w)}) <= 1
        /\ server.last.outcome = "started" => ~server.last.busy

\* C22: a thread that was running when a stop_generation request was handled
\* starts no further queue iteration.
StoppedStaysStoppedStep ==
    \A w \in Workers :
        (w \in server.stopped /\ server.workers[w].pc = "loop")
            => server'.workers[w].pc # "iterating"
C22_NoIterationAfterStop == [][StoppedStaysStoppedStep]_vars

(***************************************************************************)
(* Floating point of the confidence sum (advanced_validator.py:329-335).   *)
(* A double is kept as [a, e], standing for (a * 2^57 + e) / (400 * 2^57): *)
(* a / 400 is the decimal value meant and e the distance of the double     *)
(* from it.  Additions round to the nearest double, ties to even.          *)
(***************************************************************************)
RECURSIVE Pow2Mod(_, _)
Pow2Mod(k, m) == IF k = 0 THEN 1 % m ELSE (2 * Pow2Mod(k - 1, m)) % m

\* x >= b / 400, for an integer b
AtLeast(x, b) == x.a > b \/ (x.a = b /\ x.e >= 0)

\* the distance between neighbouring doubles around x, in units of
\* 1 / (400 * 2^57); the values met lie in [2^-5, 2)
Ulp(x) ==
    IF AtLeast(x, 400) THEN 12800
    ELSE IF AtLeast(x, 200) THEN 6400
    ELSE IF AtLeast(x, 100) THEN 3200
    ELSE IF AtLeast(x, 50) THEN 1600
    ELSE IF AtLeast(x, 25) THEN 800
    ELSE 400

\* 2^57 mod g, for the distances that occur and their doubles
Pow57 == [g \in {400, 800, 1600, 3200, 6400, 12800, 25600} |-> Pow2Mod(57, g)]

\* (a * 2^57 + e) mod g
Rem(x, g) == (x.a * Pow57[g] + x.e + 16 * g) % g

\* round to the nearest double, ties to the even mantissa
RoundF(x) ==
    LET g == Ulp(x)
        r == Rem(x, g)
        odd == Rem(x, 2 * g) >= g
        down == [a |-> x.a, e |-> x.e - r]
        up == [a |-> x.a, e |-> x.e + g - r]
    IN  IF x = Zero \/ r = 0 THEN x
        ELSE IF 2 * r < g THEN down
        ELSE IF 2 * r > g THEN up
        ELSE IF odd THEN up ELSE down

\* the double a decimal literal a / 400 denotes
Lit(a) == RoundF([a |-> a, e |-> 0])

\* x + y
AddF(x, y) == RoundF([a |-> x.a + y.a, e |-> x.e + y.e])

\* x / k for k a power of two: exact
Halve(x, k) == [a |-> x.a \div k, e |-> x.e \div k]

\* score * weight for the scores the validator produces: 0.0, 1.0, 0.25 and
\* 0.5 times a weight, and any score times 0.25, are exact
MulF(score, weight) ==
    CASE score = Zero -> Zero
      [] score = Lit(400) -> weight
      [] weight = Lit(100) -> Halve(score, 4)
      [] score = Lit(200) -> Halve(weight, 2)
      [] score = Lit(100) -> Halve(weight, 4)

\* x >= y
GeqF(x, y) == x.a > y.a \/ (x.a = y.a /\ x.e >= y.e)

\* round(x, 3), in thousandths: correctly rounded from the double's value
Round3(x) ==
    IF x.a % 2 = 0 THEN (5 * x.a) \div 2
    ELSE IF x.e > 0 THEN (5 * x.a + 1) \div 2
    ELSE IF x.e < 0 THEN (5 * x.a - 1) \div 2
    ELSE IF ((5 * x.a - 1) \div 2) % 2 = 0 THEN (5 * x.a - 1) \div 2
    ELSE (5 * x.a + 1) \div 2

\* advanced_validator.py:29-34, in the order of the dictionary
WEIGHTS ==
    [wikidata_doctoral |-> Lit(140), wikidata_influence |-> Lit(100),
     temporal_plausibility |-> Lit(100), cooccurrence |-> Lit(60)]
WeightKeys == <<"wikidata_doctoral", "wikidata_influence", "temporal_plausibility",
                "cooccurrence">>

\* advanced_validator.py:37
MIN_CONFIDENCE_THRESHOLD == Lit(160)

\* check_temporal_plausibility, lines 186-229: the scores it returns
TemporalScores == {Zero, Lit(80), Lit(160), Lit(200), Lit(240), Lit(280), Lit(320), Lit(400)}

\* check_wikipedia_cooccurrence, lines 257-275: 0.0, 0.5, 0.5 + 0.5 or 0.25
CooccurrenceScores == {Zero, Lit(100), Lit(200), Lit(400)}

\* sum(...) of lines 329-332: left to right, from 0
RECURSIVE WeightedSum(_, _)
WeightedSum(scores, n) ==
    IF n = 0 THEN Zero
    ELSE AddF(WeightedSum(scores, n - 1),
              MulF(scores[WeightKeys[n]], WEIGHTS[WeightKeys[n]]))

\* validate_and_score, lines 280-338, given what the knowledge base, the
\* temporal check and the co-occurrence check answer
ValidateAndScore(doctoral, influence, temporal, cooccur) ==
    LET d == IF doctoral THEN Lit(400) ELSE Zero
        i == IF influence THEN Lit(400) ELSE Zero
        scores == [wikidata_doctoral |-> d, wikidata_influence |-> i,
                   temporal_plausibility |-> temporal,
                   cooccurrence |-> IF d = Zero /\ i = Zero THEN cooccur ELSE Zero]
        confidence == WeightedSum(scores, 4)
    IN  [scores |-> scores, sum |-> confidence, confidence |-> Round3(confidence),
         keep |-> GeqF(confidence, MIN_CONFIDENCE_THRESHOLD)]

(***************************************************************************)
(* The offline validation: advanced_validator.py main and                  *)
(* validate_entire_graph.  A path is a sequence of pieces, the first one   *)
(* its directory; ".gexf" is a piece of its own.                           *)
(***************************************************************************)
\* most edges of a validated graph
MaxEdges == 2

\* the paths a run is given
GraphPaths ==
    {<<"output/", "scientist_graph", ".gexf">>,
     <<"output/", "run", ".gexf", ".bak">>,
     <<"output/", "graph", ".xml">>}

\* the edges a validated graph is made of, in the order of G.edges()
EdgeOrder ==
    <<(<<"Ernst Mach", "Albert Einstein">>), (<<"Albert Einstein", "Niels Bohr">>),
      (<<"Niels Bohr", "Ernst Mach">>)>>

\* str.replace(".gexf", "_validated.gexf"), line 407: every occurrence
RECURSIVE ReplaceGexf(_)
ReplaceGexf(path) ==
    IF path = <<>> THEN <<>>
    ELSE (IF Head(path) = ".gexf" THEN <<"_validated", ".gexf">> ELSE <<Head(path)>>)
             \o ReplaceGexf(Tail(path))

\* os.path.join(os.path.dirname(gexf_path), "validation_report.json"), line 386
ReportPath(path) == <<Head(path), "validation_report.json">>

\* a graph of the three subjects with the given edges
GraphOf(edges) ==
    [order |-> <<"Albert Einstein", "Ernst Mach", "Niels Bohr">>,
     attrs |-> [n \in {"Albert Einstein", "Ernst Mach", "Niels Bohr"} |-> NoAttrs],
     edges |-> edges]

\* list(G.edges())
EdgesOf(g) == SelectSeq(EdgeOrder, LAMBDA e : e \in g.edges)

\* open(path, 'w') and nx.write_gexf(_, path): the file at path is replaced
WriteFile(files, path, content) ==
    [q \in DOMAIN files \cup {path} |-> IF q = path THEN content ELSE files[q]]

\* main, lines 395-410: the arguments are read and the graph is loaded
ValMain ==
    /\ pc = "validate" /\ val.pc = "main"
    /\ val' = [val EXCEPT
                 !.pc = "edges",
                 !.output_path = IF val.filter_mode THEN ReplaceGexf(val.gexf_path) ELSE <<>>,
                 !.G = val.files[val.gexf_path].graph,
                 !.todo = EdgesOf(val.files[val.gexf_path].graph)]
    /\ UNCHANGED <<crawlVars, chrono, cacheVars, liveVars, config, ext, parsed, tally, server, nf, fetched>>

\* lines 358-369 and 419-426: one edge is scored
ValScoreEdge ==
    /\ pc = "validate" /\ val.pc = "edges" /\ val.todo # <<>>
    /\ \E d \in BOOLEAN, i \in BOOLEAN, t \in TemporalScores, c \in CooccurrenceScores :
          LET result == ValidateAndScore(d, i, t, c)
          IN  val' = [val EXCEPT
                        !.todo = Tail(@),
                        !.result = result,
                        !.removed = IF result.keep THEN @ ELSE @ \cup {Head(val.todo)}]
    /\ UNCHANGED <<crawlVars, chrono, cacheVars, liveVars, config, ext, parsed, tally, server, nf, fetched>>

\* lines 371-375 and the end of main's loop: the summary divides by the
\* number of edges
ValSummary ==
    /\ pc = "validate" /\ val.pc = "edges" /\ val.todo = <<>>
    /\ val' = [val EXCEPT !.pc = IF ~val.filter_mode THEN "done"
                                 ELSE IF val.G.edges = {} THEN "crashed"
                                 ELSE "summary"]
    /\ UNCHANGED <<crawlVars, chrono, cacheVars, liveVars, config, ext, parsed, tally, server, nf, fetched>>

\* lines 377-384: the filtered copy is written to output_path
ValWriteFiltered ==
    /\ pc = "validate" /\ val.pc = "summary"
    /\ val' = [val EXCEPT
                 !.pc = "report",
                 !.files = WriteFile(@, val.output_path,
                                     GexfFile([val.G EXCEPT !.edges = @ \ val.removed]))]
    /\ UNCHANGED <<crawlVars, chrono, cacheVars, liveVars, config, ext, parsed, tally, server, nf, fetched>>

\* lines 386-392: the report is written next to the graph
ValWriteReport ==
    /\ pc = "validate" /\ val.pc = "report"
    /\ val' = [val EXCEPT
                 !.pc = "done",
                 !.files = WriteFile(@, ReportPath(val.gexf_path),
                                     [kind |-> "report", graph |-> EmptyGraph])]
    /\ UNCHANGED <<crawlVars, chrono, cacheVars, liveVars, config, ext, parsed, tally, server, nf, fetched>>

NextValidate ==
    \/ ValMain
    \/ ValScoreEdge
    \/ ValSummary
    \/ ValWriteFiltered
    \/ ValWriteReport

InitValidate ==
    /\ pc = "validate"
    /\ Idle /\ graph = EmptyGraph /\ chrono = NoCall /\ InitCache /\ InitLive
    /\ config = DefaultConfig /\ ext = NoExtract /\ parsed = NoParse /\ tally = NoTally
    /\ server = NoServer /\ nf = NoFilter /\ fetched = {}
    /\ \E path \in GraphPaths, mode \in BOOLEAN, edges \in SUBSET SeqToSet(EdgeOrder) :
          /\ Cardinality(edges) <= MaxEdges
          /\ val = [NoVal EXCEPT !.pc = "main", !.gexf_path = path, !.filter_mode = mode,
                                 !.original = GraphOf(edges),
                                 !.files = [q \in {path} |-> GexfFile(GraphOf(edges))]]

SpecValidate == InitValidate /\ [][NextValidate]_vars

\* C23: the offline validation never changes the original graph file: for
\* every path given to it, in report mode and in filter mode, the file at
\* that path stays as it was; filter mode writes the pruned graph (same
\* nodes, exactly the edges whose keep decision is true) to another file.
C23_OriginalUntouched ==
    pc = "validate" =>
        /\ val.files[val.gexf_path] = GexfFile(val.original)
        /\ (val.filter_mode /\ val.pc = "done") =>
              /\ val.output_path # val.gexf_path
              /\ val.files[val.output_path]
                     = GexfFile([val.original EXCEPT !.edges = @ \ val.removed])

\* the weighted sum of the scores of a result in exact arithmetic, in units
\* of 1 / 40000: the weights are 35, 25, 25 and 15 hundredths and a score is
\* a / 400
ExactConfidence(result) ==
    35 * result.scores.wikidata_doctoral.a + 25 * result.scores.wikidata_influence.a
        + 25 * result.scores.temporal_plausibility.a + 15 * result.scores.cooccurrence.a

\* C24: the confidence of a scored relation is 0.35 * doctoral + 0.25 *
\* influence + 0.25 * temporal + 0.15 * cooccurrence, it lies in [0, 1], and
\* keep is true exactly when the confidence is at least 0.4.
C24_KeepIffThreshold ==
    (pc = "validate" /\ val.result # NoResult) =>
        /\ 100 * val.result.sum.a = ExactConfidence(val.result)
        /\ ExactConfidence(val.result) \in 0..40000
        /\ val.result.keep <=> ExactConfidence(val.result) >= 16000

(***************************************************************************)
(* GraphBuilder._is_valid_name, one check at a time, with the names that   *)
(* were handed to WikipediaClient.is_scientist                             *)
(***************************************************************************)
\* what an answer may list: names of the world and values that fail one check
Candidates ==
    {NotStr, Str(""), Str("Al"), Str("Newton"), Str("CERN"), Str("Adolf Hitler"),
     Str("Vienna Circle"), Str("Ernst Mach"), Str("Niels Bohr"), Str("Max Planck")}

\* the call returns False
NfReject == nf' = [nf EXCEPT !.pc = "idle", !.result = FALSE]

\* graph_builder.py:94 and 106: the filter is called with a listed value
NfCall ==
    /\ pc = "filter" /\ nf.pc = "idle"
    /\ \E c \in Candidates : nf' = [nf EXCEPT !.pc = "type", !.name = c]
    /\ UNCHANGED <<crawlVars, chrono, cacheVars, liveVars, config, ext, parsed, tally, server, val, fetched>>

\* lines 240-241
NfType ==
    /\ pc = "filter" /\ nf.pc = "type"
    /\ IF ~nf.name.isStr \/ NameLen(nf.name.text) = 0
       THEN NfReject
       ELSE nf' = [nf EXCEPT !.pc = "length"]
    /\ UNCHANGED <<crawlVars, chrono, cacheVars, liveVars, config, ext, parsed, tally, server, val, fetched>>

\* lines 244-245
NfLength ==
    /\ pc = "filter" /\ nf.pc = "length"
    /\ IF NameLen(nf.name.text) < 3 \/ ~HasSpace(nf.name.text)
       THEN NfReject
       ELSE nf' = [nf EXCEPT !.pc = "blacklist"]
    /\ UNCHANGED <<crawlVars, chrono, cacheVars, liveVars, config, ext, parsed, tally, server, val, fetched>>

\* variant: the blacklist is not consulted
NfBlacklistSkipped ==
    /\ pc = "filter" /\ nf.pc = "blacklist"
    /\ nf' = [nf EXCEPT !.pc = "patterns"]
    /\ UNCHANGED <<crawlVars, chrono, cacheVars, liveVars, config, ext, parsed, tally, server, val, fetched>>

\* lines 248-249
NfBlacklist ==
    /\ pc = "filter" /\ nf.pc = "blacklist"
    /\ IF InBlacklist(nf.name.text)
       THEN NfReject
       ELSE nf' = [nf EXCEPT !.pc = "patterns"]
    /\ UNCHANGED <<crawlVars, chrono, cacheVars, liveVars, config, ext, parsed, tally, server, val, fetched>>

\* lines 252-254
NfPatterns ==
    /\ pc = "filter" /\ nf.pc = "patterns"
    /\ IF MatchesExclusion(nf.name.text)
       THEN NfReject
       ELSE nf' = [nf EXCEPT !.pc = "classify"]
    /\ UNCHANGED <<crawlVars, chrono, cacheVars, liveVars, config, ext, parsed, tally, server, val, fetched>>

\* lines 257-261: is_scientist is called and answers
NfClassify ==
    /\ pc = "filter" /\ nf.pc = "classify"
    /\ \E answer \in BOOLEAN :
          nf' = [nf EXCEPT !.pc = "idle", !.result = answer,
                           !.lookups = @ \cup {nf.name}]
    /\ UNCHANGED <<crawlVars, chrono, cacheVars, liveVars, config, ext, parsed, tally, server, val, fetched>>

\* line 257 and wikipedia_client.py:98-100: is_scientist is called and raises
NfClassifyRaises ==
    /\ pc = "filter" /\ nf.pc = "classify"
    /\ nf' = [nf EXCEPT !.pc = "raised", !.lookups = @ \cup {nf.name}]
    /\ UNCHANGED <<crawlVars, chrono, cacheVars, liveVars, config, ext, parsed, tally, server, val, fetched>>

NextFilter ==
    \/ NfCall
    \/ NfType
    \/ NfLength
    \/ NfBlacklist
    \/ NfPatterns
    \/ NfClassify
    \/ NfClassifyRaises

InitFilter ==
    /\ pc = "filter"
    /\ Idle /\ graph = EmptyGraph /\ chrono = NoCall /\ InitCache /\ InitLive
    /\ InitExt

SpecFilter == InitFilter /\ [][NextFilter]_vars

\* C25: is_scientist is called only for a name that has passed the
\* structural checks (a string, at least 3 characters, with a space), the
\* blacklist check and every exclusion pattern; a value rejected by one of
\* those never causes a lookup.
C25_LookupOnlyAfterCheapChecks ==
    pc = "filter" =>
        \A c \in nf.lookups \cup (IF nf.pc = "classify" THEN {nf.name} ELSE {}) :
            /\ c.isStr
            /\ NameLen(c.text) >= 3 /\ HasSpace(c.text)
            /\ ~InBlacklist(c.text)
            /\ ~MatchesExclusion(c.text)

\* a listed name is rejected by the blacklist after another name was looked up
C25_Witness ==
    /\ pc = "filter" /\ nf.pc = "idle" /\ nf.lookups # {}
    /\ nf.name.isStr /\ HasSpace(nf.name.text) /\ InBlacklist(nf.name.text)
    /\ ~nf.result /\ nf.name \notin nf.lookups

(***************************************************************************)
(* Leaves: graph_builder.py:70-87                                          *)
(***************************************************************************)
\* the step dequeues an entry at depth MAX_DEPTH and marks its subject visited
LeafVisited ==
    /\ pc = "loop" /\ LoopRuns
    /\ Head(queue)[2] = MAX_DEPTH
    /\ cur' = Head(queue)
    /\ Head(queue)[1] \notin visited /\ Head(queue)[1] \in visited'

\* C26: a subject dequeued at depth == max_depth is marked visited and
\* upserted with its depth, field and birth year, and it is not expanded: the
\* extractor is not called for it, no edge is added and nothing is enqueued
\* in that iteration.
LeafStep ==
    LeafVisited =>
        /\ HasNode(graph', cur'[1])
        /\ graph'.attrs[cur'[1]] = [depth |-> DInt(MAX_DEPTH),
                                    field |-> ResolveField(graph, cur'[1]),
                                    birth_year |-> ResolveBirth(graph, cur'[1])]
        /\ graph'.edges = graph.edges
        /\ queue' = Tail(queue)
        /\ relations' = relations /\ pc' # "inspired_by"
C26_LeafIsNotExpanded == [][LeafStep]_vars

\* the same, for the iterations that run to their end
LeafStepCompleted == (LeafVisited /\ pc' = "loop") => LeafStep
LeafCompletedHolds == [][LeafStepCompleted]_vars

(***************************************************************************)
(* One crawl run started without a usable file: the queue is [(seed, 0)]   *)
(* and the graph is empty (graph_builder.py:187-191, 226-232)              *)
(***************************************************************************)
NextFresh ==
    \/ LoadExistingGraph
    \/ SkipEntry
    \/ FetchFails
    \/ VisitSubject
    \/ VisitRaises
    \/ ProcessInspiration
    \/ BeginInspired
    \/ ProcessInspired
    \/ CandidateRaises
    \/ EndIteration
    \/ ExitLoop
    \/ FinalCheckpoint

InitFresh ==
    /\ InitRun
    /\ file \in {NoFile, CorruptFile}
    /\ chrono = NoCall /\ InitCache /\ InitLive /\ InitExt

SpecFresh == InitFresh /\ [][NextFresh]_vars

\* the depths of the entries of a queue, head first
Depths(q) == [i \in 1..Len(q) |-> q[i][2]]

\* C27: in a crawl started fresh from the seed, at every iteration boundary
\* the depths of the queue entries are non-decreasing from head to tail, the
\* tail depth exceeds the head depth by at most 1, and no entry has a depth
\* greater than max_depth.
C27_QueueIsLevelOrdered ==
    (pc = "loop" /\ queue # <<>>) =>
        /\ \A i \in 1..(Len(queue) - 1) : Depths(queue)[i] <= Depths(queue)[i + 1]
        /\ Depths(queue)[Len(queue)] - Depths(queue)[1] <= 1
        /\ \A i \in 1..Len(queue) : Depths(queue)[i] <= MAX_DEPTH

\* an iteration boundary with entries of two levels in the queue
C27_Witness ==
    /\ pc = "loop" /\ Len(queue) >= 2
    /\ Depths(queue)[1] = 1 /\ Depths(queue)[Len(queue)] = 2

\* the run of SpecFresh when every step it can take is taken in the end: the
\* loop is sequential code and every external call returns
SpecFreshFair == InitFresh /\ [][NextFresh]_vars /\ WF_vars(NextFresh)

\* every iteration that begins takes one entry from the queue, a subject is
\* expanded only if it was not visited before, and the queue grows only while
\* a subject is expanded
IterationStep ==
    /\ (pc = "loop" /\ pc' \in {"loop", "inspired_by", "crashed"} /\ cur' # cur)
           => queue' = Tail(queue)
    /\ (pc = "loop" /\ pc' = "inspired_by") => cur'[1] \notin visited /\ cur'[1] \in visited'
    /\ Len(queue') > Len(queue) => pc \in {"start", "inspired_by", "inspired"}

\* C28: with finitely many names and external calls that always return, the
\* crawl loop terminates: every iteration removes one queue entry, and entries
\* are added only while a subject is expanded, which happens at most once per
\* subject.
C28_CrawlTerminates ==
    /\ (pc = "loop") ~> (pc \in {"exited", "crashed"})
    /\ [][IterationStep]_vars

\* the loop was left with an empty queue after several subjects were expanded
C28_Witness ==
    /\ pc = "exited" /\ queue = <<>>
    /\ Cardinality(visited) >= 2 /\ Cardinality(visited) < MAX_SCIENTISTS

(***************************************************************************)
(* Checkpoint and resume: save_graph at an iteration boundary, then        *)
(* _load_existing_graph of a new GraphBuilder on the file it wrote         *)
(***************************************************************************)
\* the step writes the graph to the file at the end of an iteration
\* (graph_builder.py:120-122) or after the loop
CheckpointWritten ==
    /\ pc \in {"inspired", "exited"} /\ pc' \in {"loop", "done"}
    /\ file' = GexfFile(ExportGraph(graph))

\* what a new run makes of the file f
ResumedVisited(f) == VisitedAfterLoad(f, {})
ResumedGraph(f) == GraphAfterLoad(f, EmptyGraph, {})
ResumedQueue(f) == QueueAfterLoad(f, {}, START_SCIENTIST)

\* C29: when the graph is checkpointed at an iteration boundary and a new run
\* resumes from that file, the resumed visited set is the visited set at
\* checkpoint time, with the same depths, and every unvisited name with a
\* pending queue entry at checkpoint time is in the resumed queue with a depth
\* no greater than the smallest depth of its pending entries.
RoundTripStep ==
    CheckpointWritten =>
        /\ ResumedVisited(file') = visited
        /\ \A n \in visited :
               ResumedGraph(file').attrs[n].depth = graph.attrs[n].depth
        /\ \A i \in 1..Len(queue) :
               queue[i][1] \notin visited =>
                   \E j \in 1..Len(ResumedQueue(file')) :
                       /\ ResumedQueue(file')[j][1] = queue[i][1]
                       /\ ResumedQueue(file')[j][2] <= queue[i][2]
C29_CheckpointResumeRoundTrip == [][RoundTripStep]_vars

\* a run resumed from a checkpoint that was written with pending entries:
\* it holds what the file gives and has not taken a step yet
C29_Witness ==
    /\ pc = "loop" /\ file.kind = "gexf"
    /\ visited # {} /\ visited = ResumedVisited(file)
    /\ queue # <<>> /\ queue = ResumedQueue(file)
    /\ graph = file.graph
    /\ \E i \in 1..Len(queue) : queue[i][1] \notin visited /\ queue[i][2] = 2

(***************************************************************************)
(* A responder that answers without JSON: llm_extractor.py:200-229         *)
(***************************************************************************)
\* a responder's answer that is a text
TextAnswer(t) == [kind |-> "text", text |-> t]

\* what follows in extract_relations when responder i answered with text t:
\* the rest of the chain from the next responder on
RestOfChain(conf, i, t) ==
    Chain(conf, i + 1, CallResult(TextAnswer(t)), <<Responders[i]>>, TextAnswer(t))

\* C30: a responder that answers with a text from which no JSON object can be
\* parsed ends the fallback chain: its call gives the empty relation set, which
\* is not null, no responder after it is contacted in that call, and the empty
\* set is what the call returns and hands to the cache.
C30_NonJsonAnswerEndsChain ==
    pc = "extract" =>
        /\ \A i \in 1..Len(Responders), t \in ResponseSamples :
               IsNonJson(t) =>
                   /\ CallResult(TextAnswer(t)) = NoRelations
                   /\ \A run \in RestOfChain(config, i, t) :
                          /\ run.contacted = <<Responders[i]>>
                          /\ run.result = NoRelations
        /\ (ext.calls > 0 /\ ~ext.hit /\ ext.answer.kind = "text"
                /\ IsNonJson(ext.answer.text)) =>
               /\ ext.result = NoRelations
               /\ ext.returned = NoRelations
               /\ ext.outcome = "written" =>
                      /\ IsHit(cache_dir, ext.key[2], ext.key)
                      /\ cache_dir[ext.key].result = NoRelations

\* the first responder answered without JSON while a later one was switched
\* on: it was the only one contacted, and the empty set was cached
C30_Witness ==
    /\ pc = "extract" /\ ext.calls > 0 /\ ~ext.hit
    /\ ext.answer.kind = "text" /\ IsNonJson(ext.answer.text)
    /\ ext.contacted = <<"Cerebras">> /\ config.use_groq
    /\ ext.outcome = "written" /\ cache_dir[ext.key].result = NoRelations
====
